---------------------------- MODULE Spec2Model ----------------------------
(***************************************************************************)
(* Model of src/bot.py (Paper Trading Bot 1.2.1): the module-level ledger  *)
(* (sim_balance, portfolio, entry_prices, last_buy_time, price_history),   *)
(* bot_step, the command handling of the main loop and the input thread.   *)
(*                                                                         *)
(* Python floats are modelled exactly, so that sums and products are those *)
(* of real arithmetic: a ratio (a volatility, a threshold, a percentage)   *)
(* is a fraction <<n, d>> in lowest terms with d > 0; an amount (cash, a   *)
(* quantity of coins) is a mixed number <<w, n, d>> = w + n/d with         *)
(* 0 <= n < d in lowest terms.  Prices are integers (quote units).  Python *)
(* dicts are functions whose DOMAIN is the set of keys present.            *)
(***************************************************************************)
EXTENDS Integers, Sequences, FiniteSets, TLC

(***************************************************************************)
(* Exact rational arithmetic.                                              *)
(***************************************************************************)
Abs(x) == IF x < 0 THEN -x ELSE x

RECURSIVE GCD(_, _)
GCD(a, b) == IF b = 0 THEN a ELSE GCD(b, a % b)

\* n/d in lowest terms with a positive denominator (d # 0).
Rat(n, d) ==
    LET g == GCD(Abs(n), Abs(d))
        s == IF d < 0 THEN -1 ELSE 1
    IN  <<(s * n) \div g, (s * d) \div g>>

RInt(n) == <<n, 1>>

RNeg(a) == <<-a[1], a[2]>>

RAdd(a, b) ==
    LET g == GCD(a[2], b[2])
    IN  Rat(a[1] * (b[2] \div g) + b[1] * (a[2] \div g), (a[2] \div g) * b[2])

RSub(a, b) == RAdd(a, RNeg(b))

RMul(a, b) ==
    LET g1 == GCD(Abs(a[1]), b[2])
        g2 == GCD(Abs(b[1]), a[2])
    IN  Rat((a[1] \div g1) * (b[1] \div g2), (a[2] \div g2) * (b[2] \div g1))

\* a / b for b # 0.
RDiv(a, b) == RMul(a, Rat(b[2], b[1]))

RLt(a, b) ==
    LET g == GCD(a[2], b[2])
    IN  a[1] * (b[2] \div g) < b[1] * (a[2] \div g)

RLe(a, b) == ~RLt(b, a)

RMin(a, b) == IF RLt(b, a) THEN b ELSE a

RMax(a, b) == IF RLt(a, b) THEN b ELSE a

RAbs(a) == <<Abs(a[1]), a[2]>>

RZero == RInt(0)

(***************************************************************************)
(* Exact amounts: <<w, n, d>> is w + n/d.                                  *)
(***************************************************************************)
\* w + n/d for any integers w, n and d > 0, in normal form.
Amt(w, n, d) ==
    LET q == n \div d
        r == n % d
        g == GCD(r, d)
    IN  <<w + q, r \div g, d \div g>>

AInt(k) == <<k, 0, 1>>

AZero == AInt(0)

ANeg(a) == Amt(-a[1], -a[2], a[3])

AAdd(a, b) ==
    LET g == GCD(a[3], b[3])
    IN  Amt(a[1] + b[1], a[2] * (b[3] \div g) + b[2] * (a[3] \div g),
            (a[3] \div g) * b[3])

ASub(a, b) == AAdd(a, ANeg(b))

\* a * k for an integer k.
AMulInt(a, k) == Amt(a[1] * k, a[2] * k, a[3])

\* a / k for an integer k # 0.
ADivInt(a, k) ==
    IF k > 0
    THEN Amt(a[1] \div k, (a[1] % k) * a[3] + a[2], a[3] * k)
    ELSE ANeg(Amt(a[1] \div (-k), (a[1] % (-k)) * a[3] + a[2], a[3] * (-k)))

\* a * r for a fraction r.
AMulRat(a, r) == ADivInt(AMulInt(a, r[1]), r[2])

ALt(a, b) ==
    IF a[1] # b[1] THEN a[1] < b[1]
    ELSE LET g == GCD(a[3], b[3])
         IN  a[2] * (b[3] \div g) < b[2] * (a[3] \div g)

ALe(a, b) == ~ALt(b, a)

AMin(a, b) == IF ALt(b, a) THEN b ELSE a

(***************************************************************************)
(* CONFIG (src/bot.py lines 27-45).                                        *)
(***************************************************************************)
UPDATE_INTERVAL == 10
VOLATILITY_WINDOW == 10
INITIAL_BALANCE == 1000000
AI_CONSULT_INTERVAL == 15
COOLDOWN == 300
MAX_RISK_PCT == Rat(3, 100)
STOP_LOSS_PCT == Rat(-5, 100)
TAKE_PROFIT_PCT == Rat(10, 100)
\* len(price_history[sym]) > 100 evicts the oldest entry.
HISTORY_CAP == 100
\* usd > 10 / sim_balance > 10: the minimum trade size.
MIN_TRADE_USD == 10
\* force buy spends min(sim_balance * 0.03, 1000).
FORCE_BUY_CAP == 1000
\* consult_ai: for attempt in range(3).
AI_ATTEMPTS == 3

\* The watched symbols, in the order bot_step processes them.  The program
\* watches eight; the model keeps the first two.
SYMBOLS == <<"BTC_USDT", "ETH_USDT">>

SymbolSet == {SYMBOLS[k] : k \in 1..Len(SYMBOLS)}

(***************************************************************************)
(* Bounds of the model.                                                    *)
(***************************************************************************)
\* Ticks run after the first advisory tick (tick AI_CONSULT_INTERVAL).
MaxTail == 1
\* The price feed answers on the first tick, is then down (fetch_all_prices
\* returns {}) and is back ActiveLead ticks before the first advisory tick.
ActiveLead == 1
\* Quotes accepted into the histories, over all symbols.
MaxObs == 5
\* Commands typed by the user in a run, and commands waiting in cmd_queue.
MaxCmds == 1
MaxQueue == 1

MaxTicks == AI_CONSULT_INTERVAL + MaxTail
FeedDownTicks == AI_CONSULT_INTERVAL - ActiveLead - 1

\* What the ticker can quote for a symbol: a float; the model draws from a
\* low, a middle and a slightly higher price, zero and a negative one.
PriceVals == {-100, 0, 80, 100, 102}

(***************************************************************************)
(* Helpers on sequences of integers.                                       *)
(***************************************************************************)
\* max(s) and min(s) of a non-empty sequence.
SeqMax(s) == CHOOSE x \in {s[i] : i \in DOMAIN s} : \A j \in DOMAIN s : s[j] <= x

SeqMin(s) == CHOOSE x \in {s[i] : i \in DOMAIN s} : \A j \in DOMAIN s : s[j] >= x

RECURSIVE RSum(_)
RSum(s) == IF s = <<>> THEN RZero ELSE RAdd(s[1], RSum(Tail(s)))

\* s[-n:]
LastN(s, n) == IF Len(s) <= n THEN s ELSE SubSeq(s, Len(s) - n + 1, Len(s))

\* s[:-1]
AllButLast(s) == SubSeq(s, 1, Len(s) - 1)

(***************************************************************************)
(* Pure functions of bot.py.                                               *)
(***************************************************************************)
\* calculate_volatility without the upper clamp min(vol, 0.05) of line 150.
calculate_volatility_uncapped(hist) ==
    IF Len(hist) < 2 THEN Rat(1, 100)
    ELSE LET max_p == SeqMax(hist)
             min_p == SeqMin(hist)
         IN  IF min_p = 0 THEN Rat(1, 100)
             ELSE RMax(Rat(1, 100), Rat(max_p - min_p, min_p))

\* calculate_volatility(sym), on the symbol's history.
calculate_volatility(hist) ==
    IF Len(hist) < 2 THEN Rat(1, 100)
    ELSE LET max_p == SeqMax(hist)
             min_p == SeqMin(hist)
         IN  IF min_p = 0 THEN Rat(1, 100)
             ELSE RMax(Rat(1, 100), RMin(Rat(max_p - min_p, min_p), Rat(5, 100)))

\* changes = [abs((p[i+1]-p[i])/p[i]*100) for i in range(len(p)-1) if p[i] != 0]
Changes(prices) ==
    LET idx == SelectSeq([i \in 1..(Len(prices) - 1) |-> i],
                         LAMBDA i : prices[i] # 0)
    IN  [k \in 1..Len(idx) |->
            RAbs(Rat((prices[idx[k] + 1] - prices[idx[k]]) * 100, prices[idx[k]]))]

\* vol of line 278: the mean of the last VOLATILITY_WINDOW changes, for a
\* history with at least one change.
averaged_volatility(prices) ==
    LET changes == Changes(prices)
        n       == IF Len(changes) < VOLATILITY_WINDOW
                   THEN Len(changes) ELSE VOLATILITY_WINDOW
    IN  RDiv(RSum(LastN(changes, VOLATILITY_WINDOW)), RInt(n))

\* dynamic_risk without the cap min(..., MAX_RISK_PCT) of line 279.
dynamic_risk_uncapped(prices) ==
    IF Len(prices) < 2 THEN Rat(2, 100)
    ELSE IF Changes(prices) = <<>> THEN Rat(2, 100)
         ELSE RAdd(Rat(1, 100), RDiv(averaged_volatility(prices), RInt(10)))

\* dynamic_risk(prices)
dynamic_risk(prices) ==
    IF Len(prices) < 2 THEN Rat(2, 100)
    ELSE LET changes == Changes(prices)
         IN  IF changes = <<>> THEN Rat(2, 100)
             ELSE LET n   == IF Len(changes) < VOLATILITY_WINDOW
                             THEN Len(changes) ELSE VOLATILITY_WINDOW
                      vol == RDiv(RSum(LastN(changes, VOLATILITY_WINDOW)), RInt(n))
                  IN  RMin(RAdd(Rat(1, 100), RDiv(vol, RInt(10))), MAX_RISK_PCT)


(***************************************************************************)
(* Python dict operations.                                                 *)
(***************************************************************************)
EmptyDict == [k \in {} |-> 0]

\* d.get(k, default)
Get(d, k, default) == IF k \in DOMAIN d THEN d[k] ELSE default

\* d[k] = v
Put(d, k, v) == [x \in DOMAIN d \cup {k} |-> IF x = k THEN v ELSE d[x]]

\* d.pop(k, None)
Pop(d, k) == [x \in DOMAIN d \ {k} |-> d[x]]

(***************************************************************************)
(* consult_ai (lines 153-233).  att[k] is what attempt k of the request    *)
(* loop meets: "429" (rate limited, continue), "exc" (the request or the   *)
(* decoding raises: network failure, timeout, HTTP error), a signal word   *)
(* found in the reply (by the JSON parse or the fallback regex), or "junk" *)
(* (a reply with no signal word).  The result is <<signal, reason>>.       *)
(***************************************************************************)
Signals == {"buy", "sell", "hold"}

AttemptOutcomes == {"429", "exc", "junk"} \cup Signals

AttemptSeqs == [1..AI_ATTEMPTS -> AttemptOutcomes]

RECURSIVE consult_attempts(_, _)
consult_attempts(att, k) ==
    IF k > AI_ATTEMPTS THEN <<"hold", "error">>
    ELSE IF att[k] \in {"429", "exc"} THEN consult_attempts(att, k + 1)
    ELSE IF att[k] \in Signals THEN <<att[k], "reason">>
    ELSE <<"hold", "raw">>

consult_ai(has_key, att) ==
    IF ~has_key THEN <<"hold", "no key">>
    ELSE consult_attempts(att, 1)

\* Every <<signal, reason>> consult_ai can return, over what its attempts meet.
ConsultResults(has_key) == {consult_ai(has_key, att) : att \in AttemptSeqs}

(***************************************************************************)
(* The ledger operations, on a ledger value                                *)
(*   L = [bal, pf, ep, lbt, log]                                           *)
(* standing for sim_balance, portfolio, entry_prices, last_buy_time and    *)
(* the records log_trade has written in the current tick or command.       *)
(***************************************************************************)
Trade(sym, action, p, qty, bal, reason) ==
    [sym |-> sym, action |-> action, price |-> p, qty |-> qty,
     bal |-> bal, reason |-> reason]

\* can_buy(sym) at wall-clock time now (lines 281-285).
can_buy(L, sym, now) ==
    IF ALt(AZero, Get(L.pf, sym, AZero)) THEN FALSE
    ELSE IF sym \in DOMAIN L.lbt /\ now - L.lbt[sym] < COOLDOWN THEN FALSE
    ELSE TRUE

\* dyn_sl = STOP_LOSS_PCT * (1 + vol)
dyn_sl(vol) == RMul(STOP_LOSS_PCT, RAdd(RInt(1), vol))

\* dyn_tp = TAKE_PROFIT_PCT * (1 - vol / 2)
dyn_tp(vol) == RMul(TAKE_PROFIT_PCT, RSub(RInt(1), RDiv(vol, RInt(2))))

\* profit_loss = (price - entry) / entry
profit_loss(p, entry) == Rat(p - entry, entry)

\* if sold and ai_signal != "sell": the position is closed (lines 368-371).
ClearsPosition(sold, sig) == sold /\ sig # "sell"

\* The SELL Logic with the advisory sell tested before the two thresholds.
sell_logic_ai_first(L, sym, p, vol, sig, reason) ==
    LET qty   == Get(L.pf, sym, AZero)
        entry == Get(L.ep, sym, p)
    IN  IF ~(ALt(AZero, qty) /\ entry # 0) THEN L
        ELSE
        LET pl == profit_loss(p, entry)
            kind == IF sig = "sell" THEN "AI"
                    ELSE IF RLe(pl, dyn_sl(vol)) THEN "Stop-Loss"
                    ELSE IF RLe(dyn_tp(vol), pl) THEN "Take-Profit"
                    ELSE "none"
            sold == kind # "none"
            sell_qty == IF kind = "AI" THEN AMulRat(qty, Rat(1, 2)) ELSE qty
            bal1 == IF sold THEN AAdd(L.bal, AMulInt(sell_qty, p)) ELSE L.bal
            log1 == IF sold
                    THEN Append(L.log, Trade(sym, "SELL", p, sell_qty, bal1,
                                             IF kind = "AI" THEN reason ELSE kind))
                    ELSE L.log
            pf1  == IF kind = "AI" THEN Put(L.pf, sym, ASub(qty, sell_qty)) ELSE L.pf
        IN  IF ClearsPosition(sold, sig)
            THEN [bal |-> bal1, pf |-> Put(pf1, sym, AZero), ep |-> Pop(L.ep, sym),
                  lbt |-> Pop(L.lbt, sym), log |-> log1]
            ELSE [L EXCEPT !.bal = bal1, !.pf = pf1, !.log = log1]

\* SELL Logic of bot_step (lines 339-371).
sell_logic(L, sym, p, vol, sig, reason) ==
    LET qty   == Get(L.pf, sym, AZero)
        entry == Get(L.ep, sym, p)
    IN  IF ~(ALt(AZero, qty) /\ entry # 0) THEN L
        ELSE
        LET pl == profit_loss(p, entry)
            kind == IF RLe(pl, dyn_sl(vol)) THEN "Stop-Loss"
                    ELSE IF RLe(dyn_tp(vol), pl) THEN "Take-Profit"
                    ELSE IF sig = "sell" THEN "AI"
                    ELSE "none"
            sold == kind # "none"
            sell_qty == IF kind = "AI" THEN AMulRat(qty, Rat(1, 2)) ELSE qty
            bal1 == IF sold THEN AAdd(L.bal, AMulInt(sell_qty, p)) ELSE L.bal
            log1 == IF sold
                    THEN Append(L.log, Trade(sym, "SELL", p, sell_qty, bal1,
                                             IF kind = "AI" THEN reason ELSE kind))
                    ELSE L.log
            pf1  == IF kind = "AI" THEN Put(L.pf, sym, ASub(qty, sell_qty)) ELSE L.pf
        IN  IF ClearsPosition(sold, sig)
            THEN [bal |-> bal1, pf |-> Put(pf1, sym, AZero), ep |-> Pop(L.ep, sym),
                  lbt |-> Pop(L.lbt, sym), log |-> log1]
            ELSE [L EXCEPT !.bal = bal1, !.pf = pf1, !.log = log1]

\* drop = (price - max_r) / max_r * 100 if max_r != 0 else 0  (line 376)
drop_of(p, max_r) == IF max_r # 0 THEN Rat((p - max_r) * 100, max_r) ELSE RZero

\* buy_threshold = -0.02 * (1 + vol)  (line 377)
buy_threshold(vol) == RMul(Rat(-2, 100), RAdd(RInt(1), vol))

\* The BUY Logic without the minimum trade size test of line 381.
buy_logic_no_minimum(L, sym, p, hist, vol, sig, reason, now) ==
    IF ~(can_buy(L, sym, now) /\ Len(hist) > 2) THEN L
    ELSE
    LET max_r == SeqMax(AllButLast(hist))
        drop  == drop_of(p, max_r)
    IN  IF ~(RLe(drop, buy_threshold(vol)) /\ (sig = "buy" \/ sig = "None")) THEN L
        ELSE
        LET usd   == AMulRat(L.bal, dynamic_risk(hist))
            coins == ADivInt(usd, p)
            bal1  == ASub(L.bal, usd)
        IN  [bal |-> bal1, pf |-> Put(L.pf, sym, coins), ep |-> Put(L.ep, sym, p),
             lbt |-> Put(L.lbt, sym, now),
             log |-> Append(L.log, Trade(sym, "BUY", p, coins, bal1, reason))]

\* The BUY Logic without the advisory test of line 378.
buy_logic_no_veto(L, sym, p, hist, vol, sig, reason, now) ==
    IF ~(can_buy(L, sym, now) /\ Len(hist) > 2) THEN L
    ELSE
    LET max_r == SeqMax(AllButLast(hist))
        drop  == drop_of(p, max_r)
    IN  IF ~RLe(drop, buy_threshold(vol)) THEN L
        ELSE
        LET usd == AMulRat(L.bal, dynamic_risk(hist))
        IN  IF ~ALt(AInt(MIN_TRADE_USD), usd) THEN L
            ELSE
            LET coins == ADivInt(usd, p)
                bal1  == ASub(L.bal, usd)
            IN  [bal |-> bal1, pf |-> Put(L.pf, sym, coins), ep |-> Put(L.ep, sym, p),
                 lbt |-> Put(L.lbt, sym, now),
                 log |-> Append(L.log, Trade(sym, "BUY", p, coins, bal1, reason))]

\* BUY Logic of bot_step (lines 373-389).
buy_logic(L, sym, p, hist, vol, sig, reason, now) ==
    IF ~(can_buy(L, sym, now) /\ Len(hist) > 2) THEN L
    ELSE
    LET max_r == SeqMax(AllButLast(hist))
        drop  == drop_of(p, max_r)
    IN  IF ~(RLe(drop, buy_threshold(vol)) /\ (sig = "buy" \/ sig = "None")) THEN L
        ELSE
        LET risk_pct == dynamic_risk(hist)
            usd      == AMulRat(L.bal, risk_pct)
        IN  IF ~ALt(AInt(MIN_TRADE_USD), usd) THEN L
            ELSE
            LET coins == ADivInt(usd, p)
                bal1  == ASub(L.bal, usd)
            IN  [bal |-> bal1, pf |-> Put(L.pf, sym, coins), ep |-> Put(L.ep, sym, p),
                 lbt |-> Put(L.lbt, sym, now),
                 log |-> Append(L.log, Trade(sym, "BUY", p, coins, bal1, reason))]

\* "not price": the fetched price is missing (no entry) or zero.
Falsy(reply) == reply = <<>> \/ reply[1] = 0

\* force buy <coin> (lines 491-503), reply = get_single_price(full).
force_buy(L, sym, reply, now) ==
    IF Falsy(reply) THEN L
    ELSE IF ~ALt(AInt(MIN_TRADE_USD), L.bal) THEN L
    ELSE
    LET p    == reply[1]
        usd  == AMin(AMulRat(L.bal, Rat(3, 100)), AInt(FORCE_BUY_CAP))
        qty  == ADivInt(usd, p)
        bal1 == ASub(L.bal, usd)
    IN  [bal |-> bal1, pf |-> Put(L.pf, sym, qty), ep |-> Put(L.ep, sym, p),
         lbt |-> Put(L.lbt, sym, now),
         log |-> Append(L.log, Trade(sym, "BUY", p, qty, bal1, ""))]

\* force sell without last_buy_time.pop (line 508).
force_sell_keeps_cooldown(L, sym, reply) ==
    IF Falsy(reply) THEN L
    ELSE IF ~ALt(AZero, Get(L.pf, sym, AZero)) THEN L
    ELSE
    LET p    == reply[1]
        qty  == L.pf[sym]
        bal1 == AAdd(L.bal, AMulInt(qty, p))
    IN  [bal |-> bal1, pf |-> Put(L.pf, sym, AZero), ep |-> Pop(L.ep, sym),
         lbt |-> L.lbt,
         log |-> Append(L.log, Trade(sym, "SELL", p, qty, bal1, ""))]

\* force sell without the test of the held quantity (line 504).
force_sell_unchecked(L, sym, reply) ==
    IF Falsy(reply) THEN L
    ELSE
    LET p    == reply[1]
        qty  == Get(L.pf, sym, AZero)
        bal1 == AAdd(L.bal, AMulInt(qty, p))
    IN  [bal |-> bal1, pf |-> Put(L.pf, sym, AZero), ep |-> Pop(L.ep, sym),
         lbt |-> Pop(L.lbt, sym),
         log |-> Append(L.log, Trade(sym, "SELL", p, qty, bal1, ""))]

\* force sell <coin> (lines 491-493, 504-512).
force_sell(L, sym, reply) ==
    IF Falsy(reply) THEN L
    ELSE IF ~ALt(AZero, Get(L.pf, sym, AZero)) THEN L
    ELSE
    LET p    == reply[1]
        qty  == L.pf[sym]
        bal1 == AAdd(L.bal, AMulInt(qty, p))
    IN  [bal |-> bal1, pf |-> Put(L.pf, sym, AZero), ep |-> Pop(L.ep, sym),
         lbt |-> Pop(L.lbt, sym),
         log |-> Append(L.log, Trade(sym, "SELL", p, qty, bal1, ""))]

(***************************************************************************)
(* What a step sends to notification.schedule and console.hud_alert, as    *)
(* the list of the messages without their figures.  L0 is the ledger       *)
(* before the step and L1 the ledger after it.                             *)
(***************************************************************************)
\* SELL Logic: lines 350, 356, 363.
sell_alerts(L0, L1) ==
    IF Len(L1.log) = Len(L0.log) THEN <<>>
    ELSE LET reason == L1.log[Len(L1.log)].reason
         IN  IF reason = "Stop-Loss" THEN <<"STOP-LOSS">>
             ELSE IF reason = "Take-Profit" THEN <<"TAKE-PROFIT">>
             ELSE <<"AI SELL">>

\* BUY Logic: line 388.
buy_alerts(L0, L1) == IF Len(L1.log) = Len(L0.log) THEN <<>> ELSE <<"BUY">>

\* force buy / force sell of a watched symbol: lines 492-512.
force_alerts(L, action, sym, reply) ==
    IF Falsy(reply) THEN <<"Price fetch failed">>
    ELSE IF action = "buy" /\ ALt(AInt(MIN_TRADE_USD), L.bal) THEN <<"FORCED BUY">>
    ELSE IF action = "sell" /\ ALt(AZero, Get(L.pf, sym, AZero)) THEN <<"FORCED SELL">>
    ELSE <<>>

(***************************************************************************)
(* State.                                                                  *)
(***************************************************************************)
VARIABLES
    price_history,       \* dict symbol -> list of prices (line 82)
    portfolio,           \* dict symbol -> quantity (line 83)
    sim_balance,         \* cash (line 84)
    running,             \* line 85
    cmd_queue,           \* queue.Queue of command strings (line 86)
    entry_prices,        \* dict symbol -> entry price (line 88)
    last_buy_time,       \* dict symbol -> time.time() of the buy (line 89)
    ai_consult_counter,  \* line 92
    OPENROUTER_API_KEY,  \* TRUE iff get_api_key() returned a key (line 113)
    last_update,         \* line 464
    clock,               \* time.time()
    pc,                  \* position of the main thread: "top" (line 467),
                         \* "sym" and "buy" (in bot_step), "poll" (line 473),
                         \* "sleep" (line 516), "dead" (ended by an exception)
    sym_idx,             \* bot_step: index in SYMBOLS of the symbol in hand
    price,               \* bot_step: the local price
    ai_signal,           \* bot_step: the local ai_signal ("None" for None)
    ai_reason,           \* bot_step: the local ai_reason
    trades,              \* records log_trade wrote in the current tick or command
    typed,               \* commands the input thread has read so far
    peak_equity,         \* DrawdownGuard: running maximum of the equity
    tripped,             \* DrawdownGuard: the guard has tripped
    alerts,              \* what the last step of the main thread sent to
                         \* notification.schedule and console.hud_alert
    call,                \* a function of bot.py called on its own: its name
                         \* and arguments ("none": no such call)
    result,              \* the values the calls of that function returned
    ios                  \* pythonista_ios_mode.py: its globals and the threads
                         \* start() has made

vars == <<price_history, portfolio, sim_balance, running, cmd_queue, entry_prices,
          last_buy_time, ai_consult_counter, OPENROUTER_API_KEY, last_update,
          clock, pc, sym_idx, price, ai_signal, ai_reason, trades, typed,
          peak_equity, tripped, alerts, call, result, ios>>

(***************************************************************************)
(* pythonista_ios_mode.py.  The model follows the first of its SYMBOLS     *)
(* (line 18): the symbols share nothing but the balance.  balance is <<>>  *)
(* until a bot_loop has assigned it (the global is first bound at line     *)
(* 57).                                                                    *)
(***************************************************************************)
IOS_SYMBOLS == <<"BTC_USDT">>

IosSymbolSet == {IOS_SYMBOLS[k] : k \in 1..Len(IOS_SYMBOLS)}

BALANCE == 1000000

\* The globals after the module has loaded (lines 19-27, 95), no thread made;
\* api_key: API_KEY is no longer the placeholder of line 20.
IosIdle ==
    [balance |-> <<>>,
     holdings |-> [s \in IosSymbolSet |-> AZero],
     history |-> [s \in IosSymbolSet |-> <<>>],
     running |-> TRUE,
     api_key |-> FALSE,
     threads |-> <<>>,
     log |-> <<>>]

\* No function is being called on its own: the program runs.
NoCall == [fn |-> "none"]

\* The ledger value of the current state, and its write-back.
Ledger == [bal |-> sim_balance, pf |-> portfolio, ep |-> entry_prices,
           lbt |-> last_buy_time, log |-> trades]

SetLedger(L) ==
    /\ sim_balance' = L.bal
    /\ portfolio' = L.pf
    /\ entry_prices' = L.ep
    /\ last_buy_time' = L.lbt
    /\ trades' = L.log

\* Lines 82-92, 113, 464: the state when the main loop is entered.  time.time()
\* is far beyond last_update = 0, so the first tick is due at once.
Init ==
    /\ call = NoCall
    /\ ios = IosIdle
    /\ result = <<>>
    /\ price_history = [s \in SymbolSet |-> <<>>]
    /\ portfolio = EmptyDict
    /\ sim_balance = AInt(INITIAL_BALANCE)
    /\ running = TRUE
    /\ cmd_queue = <<>>
    /\ entry_prices = EmptyDict
    /\ last_buy_time = EmptyDict
    /\ ai_consult_counter = 0
    /\ OPENROUTER_API_KEY \in BOOLEAN
    /\ last_update = 0
    /\ clock = UPDATE_INTERVAL
    /\ pc = "top"
    /\ sym_idx = 0
    /\ price = 0
    /\ ai_signal = "None"
    /\ ai_reason = ""
    /\ trades = <<>>
    /\ typed = 0
    /\ peak_equity = AInt(INITIAL_BALANCE)
    /\ tripped = FALSE
    /\ alerts = <<>>

(***************************************************************************)
(* The price feed (fetch_all_prices, get_single_price).  A reply for one   *)
(* symbol is <<>> (no entry for it, or the fetch failed) or <<p>>.         *)
(***************************************************************************)
RECURSIVE SumLen(_, _)
SumLen(h, k) == IF k = 0 THEN 0 ELSE Len(h[SYMBOLS[k]]) + SumLen(h, k - 1)

Obs == SumLen(price_history, Len(SYMBOLS))

\* The model follows MaxObs quotes of a run from its start; a run entered with
\* full histories is bounded by its ticks alone.
ObsRoom == Obs < MaxObs \/ Obs >= HISTORY_CAP

\* The feed answers up to the first tick and again after tick FeedDownTicks.
FeedUp == ai_consult_counter <= 1 \/ ai_consult_counter > FeedDownTicks

FeedReplies == {<<>>} \cup (IF FeedUp THEN {<<p>> : p \in PriceVals} ELSE {})

\* "if not price: continue": the test of the force commands (line 492).
Usable_not_falsy(reply) == reply # <<>> /\ reply[1] # 0

\* "if not price or price <= 0: continue" (line 315), negated.
Usable(reply) == reply # <<>> /\ reply[1] > 0

\* The append without the pop(0) of lines 318-319.
append_price_no_pop(hist, p) == Append(hist, p)

\* price_history[sym].append(price); pop(0) beyond 100 entries (lines 317-319).
append_price(hist, p) ==
    LET h == Append(hist, p)
    IN  IF Len(h) > HISTORY_CAP THEN Tail(h) ELSE h

\* Line 330 without the test of the tick counter.
Consults_every_tick(counter, hist) == Len(hist) > 2

\* The advisory is consulted (line 330).
Consults(counter, hist) == counter % AI_CONSULT_INTERVAL = 0 /\ Len(hist) > 2

(***************************************************************************)
(* Total equity as display_status computes it (lines 405-406): cash plus   *)
(* each quantity at the last price of the symbol's history.  The value is  *)
(* read only when no history is empty (see display_status_raises).         *)
(***************************************************************************)
last_price(hist) == IF hist = <<>> THEN 0 ELSE hist[Len(hist)]

RECURSIVE holdings(_, _, _)
holdings(pf, h, k) ==
    IF k = 0 THEN AZero
    ELSE AAdd(AMulInt(Get(pf, SYMBOLS[k], AZero), last_price(h[SYMBOLS[k]])),
              holdings(pf, h, k - 1))

mark_to_market(bal, pf, h) == AAdd(bal, holdings(pf, h, Len(SYMBOLS)))

(***************************************************************************)
(* display_status (lines 394-447) changes no state, but line 405 reads     *)
(* price_history.get(s, [0])[-1] for every symbol: on an empty history     *)
(* that raises IndexError.  Neither call site (line 470 after bot_step,    *)
(* line 513 after a command, where only queue.Empty is caught) handles it, *)
(* so the main thread, and with it the program, ends.                      *)
(***************************************************************************)
\* price_history = {s: [] for s in SYMBOLS} (lines 82, 291)
EmptyHistory == [s \in SymbolSet |-> <<>>]

display_status_raises(h) == \E s \in SymbolSet : h[s] = <<>>

\* As display_total, had line 405 read the quantities with
\* portfolio.setdefault(s, 0): every symbol gets a portfolio entry.
display_total_setdefault(bal, pf, h) ==
    [value |-> IF display_status_raises(h) THEN <<"IndexError">>
               ELSE <<"total_port", mark_to_market(bal, pf, h)>>,
     pf    |-> [s \in SymbolSet |-> Get(pf, s, AZero)],
     hist  |-> h]

\* Lines 405-406: total_port, or the IndexError of an empty history, and the
\* portfolio and histories the evaluation leaves (dict.get inserts nothing,
\* [-1] removes nothing).
display_total(bal, pf, h) ==
    [value |-> IF display_status_raises(h) THEN <<"IndexError">>
               ELSE <<"total_port", mark_to_market(bal, pf, h)>>,
     pf    |-> pf,
     hist  |-> h]

(***************************************************************************)
(* The DrawdownGuard of the specification (section 4.5).  bot.py has no    *)
(* such component: peak_equity and tripped only observe the run, and no    *)
(* action of the program reads them.  The threshold is a configuration     *)
(* value of the specification; the model takes 1/200 so that the bounded   *)
(* price moves reach it.                                                   *)
(***************************************************************************)
max_global_drawdown == Rat(1, 200)

\* (peak - equity) / peak >= max_global_drawdown, for peak > 0.
DrawdownBreached(peak, equity) ==
    ALe(AMulRat(peak, max_global_drawdown), ASub(peak, equity))

\* After every tick: peak_equity = max(peak_equity, equity), then the test.
GuardUpdate(equity) ==
    LET peak == IF ALt(peak_equity, equity) THEN equity ELSE peak_equity
    IN  /\ peak_equity' = peak
        /\ tripped' = (tripped \/ DrawdownBreached(peak, equity))

\* An explicit reset restores the initial ledger and clears the guard.
GuardReset ==
    /\ peak_equity' = AInt(INITIAL_BALANCE)
    /\ tripped' = FALSE

\* reset_bot without the clearing of the price histories.
reset_bot_keeps_history ==
    /\ portfolio' = EmptyDict
    /\ sim_balance' = AInt(INITIAL_BALANCE)
    /\ price_history' = price_history
    /\ entry_prices' = EmptyDict
    /\ last_buy_time' = EmptyDict
    /\ GuardReset

(***************************************************************************)
(* reset_bot (lines 287-295).                                              *)
(***************************************************************************)
reset_bot ==
    /\ portfolio' = EmptyDict
    /\ sim_balance' = AInt(INITIAL_BALANCE)
    /\ price_history' = EmptyHistory
    /\ entry_prices' = EmptyDict
    /\ last_buy_time' = EmptyDict
    /\ GuardReset

(***************************************************************************)
(* bot_step (lines 304-389), run by the main loop when a tick is due       *)
(* (lines 467-471).                                                        *)
(***************************************************************************)
Due == clock - last_update >= UPDATE_INTERVAL

\* The loop over SYMBOLS left after its first pass, as a "return" where the
\* body of the loop ends would do: display_status(); last_update = now_ts.
NextSymbol_first_only(L) ==
    /\ price' = 0
    /\ ai_signal' = "None"
    /\ ai_reason' = ""
    /\ sym_idx' = 0
    /\ IF display_status_raises(price_history)
       THEN /\ pc' = "dead"
            /\ UNCHANGED <<last_update, peak_equity, tripped>>
       ELSE /\ pc' = "poll"
            /\ last_update' = clock
            /\ GuardUpdate(mark_to_market(L.bal, L.pf, price_history))

\* Leaving the body of "for sym in SYMBOLS" for the next symbol, or leaving
\* bot_step after the last one: display_status(); last_update = now_ts.  L is
\* the ledger the symbol's processing leaves.
NextSymbol(L) ==
    /\ price' = 0
    /\ ai_signal' = "None"
    /\ ai_reason' = ""
    /\ IF sym_idx < Len(SYMBOLS)
       THEN /\ sym_idx' = sym_idx + 1
            /\ pc' = "sym"
            /\ UNCHANGED <<last_update, peak_equity, tripped>>
       ELSE /\ sym_idx' = 0
            /\ IF display_status_raises(price_history)
               THEN /\ pc' = "dead"
                    /\ UNCHANGED <<last_update, peak_equity, tripped>>
               ELSE /\ pc' = "poll"
                    /\ last_update' = clock
                    /\ GuardUpdate(mark_to_market(L.bal, L.pf, price_history))

\* bot_step entered whenever a tick is due, without the test of running
\* (line 468).
BotStepBegin_while_stopped ==
    /\ UNCHANGED <<call, result, ios>>
    /\ pc = "top"
    /\ Due
    /\ ai_consult_counter < MaxTicks
    /\ trades' = <<>>
    /\ IF ALe(sim_balance, AZero)
       THEN /\ reset_bot
            /\ alerts' = <<"AUTO-RESET: Balance was $0">>
            /\ IF display_status_raises(EmptyHistory)
               THEN pc' = "dead" /\ UNCHANGED last_update
               ELSE pc' = "poll" /\ last_update' = clock
            /\ UNCHANGED <<ai_consult_counter, sym_idx>>
       ELSE /\ ai_consult_counter' = ai_consult_counter + 1
            /\ pc' = "sym"
            /\ sym_idx' = 1
            /\ alerts' = <<>>
            /\ UNCHANGED <<price_history, portfolio, sim_balance, entry_prices,
                           last_buy_time, last_update, peak_equity, tripped>>
    /\ UNCHANGED <<running, cmd_queue, OPENROUTER_API_KEY, clock, price,
                   ai_signal, ai_reason, typed>>

\* Lines 305-311: the auto-reset, else the fetch and the tick counter.
BotStepBegin ==
    /\ UNCHANGED <<call, result, ios>>
    /\ pc = "top"
    /\ running
    /\ Due
    /\ ai_consult_counter < MaxTicks
    /\ trades' = <<>>
    /\ IF ALe(sim_balance, AZero)
       THEN /\ reset_bot
            /\ alerts' = <<"AUTO-RESET: Balance was $0">>
            /\ IF display_status_raises(EmptyHistory)
               THEN pc' = "dead" /\ UNCHANGED last_update
               ELSE pc' = "poll" /\ last_update' = clock
            /\ UNCHANGED <<ai_consult_counter, sym_idx>>
       ELSE /\ ai_consult_counter' = ai_consult_counter + 1
            /\ pc' = "sym"
            /\ sym_idx' = 1
            /\ alerts' = <<>>
            /\ UNCHANGED <<price_history, portfolio, sim_balance, entry_prices,
                           last_buy_time, last_update, peak_equity, tripped>>
    /\ UNCHANGED <<running, cmd_queue, OPENROUTER_API_KEY, clock, price,
                   ai_signal, ai_reason, typed>>

\* Line 468: no tick is due, or the bot is stopped.
NoTick ==
    /\ UNCHANGED <<call, result, ios>>
    /\ pc = "top"
    /\ ~(running /\ Due)
    /\ pc' = "poll"
    /\ alerts' = <<>>
    /\ UNCHANGED <<price_history, portfolio, sim_balance, running, cmd_queue,
                   entry_prices, last_buy_time, ai_consult_counter,
                   OPENROUTER_API_KEY, last_update, clock, sym_idx, price,
                   ai_signal, ai_reason, trades, typed, peak_equity, tripped>>

\* Lines 313-371 for SYMBOLS[sym_idx]: the price, the history, the advisory and
\* the SELL logic.
BotStepSell ==
    /\ UNCHANGED <<call, result, ios>>
    /\ pc = "sym"
    /\ LET sym == SYMBOLS[sym_idx] IN
       \E reply \in FeedReplies :
          IF ~Usable(reply)
          THEN /\ UNCHANGED <<price_history, portfolio, sim_balance, entry_prices,
                              last_buy_time, trades>>
               /\ alerts' = <<>>
               /\ NextSymbol(Ledger)
          ELSE /\ ObsRoom
               /\ LET p    == reply[1]
                      hist == append_price(price_history[sym], p)
                      vol  == calculate_volatility(hist)
                  IN  \E res \in (IF Consults(ai_consult_counter, hist)
                                  THEN ConsultResults(OPENROUTER_API_KEY)
                                  ELSE {<<"None", "">>}) :
                             /\ price_history' = [price_history EXCEPT ![sym] = hist]
                             /\ price' = p
                             /\ ai_signal' = res[1]
                             /\ ai_reason' = res[2]
                             /\ SetLedger(sell_logic(Ledger, sym, p, vol, res[1], res[2]))
                             /\ alerts' = sell_alerts(Ledger,
                                    sell_logic(Ledger, sym, p, vol, res[1], res[2]))
                             /\ pc' = "buy"
                             /\ UNCHANGED <<sym_idx, last_update, peak_equity,
                                            tripped>>
    /\ UNCHANGED <<running, cmd_queue, ai_consult_counter, OPENROUTER_API_KEY,
                   clock, typed>>

\* Lines 373-389 for SYMBOLS[sym_idx]: the BUY logic.
BotStepBuy ==
    /\ UNCHANGED <<call, result, ios>>
    /\ pc = "buy"
    /\ LET sym  == SYMBOLS[sym_idx]
           hist == price_history[sym]
           L    == buy_logic(Ledger, sym, price, hist, calculate_volatility(hist),
                             ai_signal, ai_reason, clock)
       IN  /\ SetLedger(L)
           /\ alerts' = buy_alerts(Ledger, L)
           /\ NextSymbol(L)
    /\ UNCHANGED <<price_history, running, cmd_queue, ai_consult_counter,
                   OPENROUTER_API_KEY, clock, typed>>

(***************************************************************************)
(* The input thread (lines 452-460) and the commands of the main loop      *)
(* (lines 473-513).  A command is the list cmd.split().                    *)
(***************************************************************************)
Commands ==
    {<<"start">>, <<"stop">>, <<"reset">>}
        \cup {<<"force", a, s>> : a \in {"buy", "sell"}, s \in SymbolSet}

\* input_thread: cmd_queue.put(cmd)
Enqueue ==
    /\ UNCHANGED <<call, result, ios>>
    /\ typed < MaxCmds
    /\ Len(cmd_queue) < MaxQueue
    /\ \E cmd \in Commands : cmd_queue' = Append(cmd_queue, cmd)
    /\ typed' = typed + 1
    /\ UNCHANGED <<price_history, portfolio, sim_balance, running, entry_prices,
                   last_buy_time, ai_consult_counter, OPENROUTER_API_KEY,
                   last_update, clock, pc, sym_idx, price, ai_signal, ai_reason,
                   trades, peak_equity, tripped, alerts>>

\* A command taken from the queue wherever the main thread stands (a handler
\* running on the input thread).
Dequeued_any_time(cmd) ==
    /\ cmd_queue # <<>>
    /\ Head(cmd_queue) = cmd
    /\ cmd_queue' = Tail(cmd_queue)

\* The newest command taken instead of the oldest (a stack for a queue).
Dequeued_last(cmd) ==
    /\ pc = "poll"
    /\ cmd_queue # <<>>
    /\ cmd_queue[Len(cmd_queue)] = cmd
    /\ cmd_queue' = SubSeq(cmd_queue, 1, Len(cmd_queue) - 1)

\* cmd = cmd_queue.get_nowait() (line 474), once in every loop iteration.
Dequeued(cmd) ==
    /\ pc = "poll"
    /\ cmd_queue # <<>>
    /\ Head(cmd_queue) = cmd
    /\ cmd_queue' = Tail(cmd_queue)

\* display_status() after the command (line 513), with the histories h the
\* command leaves.
Displayed(h) == pc' = IF display_status_raises(h) THEN "dead" ELSE "sleep"

\* except queue.Empty: pass (lines 514-515).
PollEmpty ==
    /\ UNCHANGED <<call, result, ios>>
    /\ pc = "poll"
    /\ cmd_queue = <<>>
    /\ pc' = "sleep"
    /\ alerts' = <<>>
    /\ UNCHANGED <<price_history, portfolio, sim_balance, running, cmd_queue,
                   entry_prices, last_buy_time, ai_consult_counter,
                   OPENROUTER_API_KEY, last_update, clock, sym_idx, price,
                   ai_signal, ai_reason, trades, typed, peak_equity, tripped>>

CmdStart ==
    /\ UNCHANGED <<call, result, ios>>
    /\ Dequeued(<<"start">>)
    /\ running' = TRUE
    /\ trades' = <<>>
    /\ alerts' = <<"Bot STARTED">>
    /\ Displayed(price_history)
    /\ UNCHANGED <<price_history, portfolio, sim_balance, entry_prices,
                   last_buy_time, ai_consult_counter, OPENROUTER_API_KEY,
                   last_update, clock, sym_idx, price, ai_signal, ai_reason,
                   typed, peak_equity, tripped>>

CmdStop ==
    /\ UNCHANGED <<call, result, ios>>
    /\ Dequeued(<<"stop">>)
    /\ running' = FALSE
    /\ trades' = <<>>
    /\ alerts' = <<"Bot STOPPED">>
    /\ Displayed(price_history)
    /\ UNCHANGED <<price_history, portfolio, sim_balance, entry_prices,
                   last_buy_time, ai_consult_counter, OPENROUTER_API_KEY,
                   last_update, clock, sym_idx, price, ai_signal, ai_reason,
                   typed, peak_equity, tripped>>

CmdReset ==
    /\ UNCHANGED <<call, result, ios>>
    /\ Dequeued(<<"reset">>)
    /\ reset_bot
    /\ trades' = <<>>
    /\ alerts' = <<"AUTO-RESET: Balance was $0", "Reset complete">>
    /\ Displayed(EmptyHistory)
    /\ UNCHANGED <<running, ai_consult_counter, OPENROUTER_API_KEY, last_update,
                   clock, sym_idx, price, ai_signal, ai_reason, typed>>

CmdForceBuy ==
    \E s \in SymbolSet, reply \in FeedReplies :
        /\ UNCHANGED <<call, result, ios>>
        /\ Dequeued(<<"force", "buy", s>>)
        /\ SetLedger(force_buy([Ledger EXCEPT !.log = <<>>], s, reply, clock))
        /\ alerts' = force_alerts(Ledger, "buy", s, reply)
        /\ Displayed(price_history)
        /\ UNCHANGED <<price_history, running, ai_consult_counter,
                       OPENROUTER_API_KEY, last_update, clock, sym_idx, price,
                       ai_signal, ai_reason, typed, peak_equity, tripped>>

CmdForceSell ==
    \E s \in SymbolSet, reply \in FeedReplies :
        /\ UNCHANGED <<call, result, ios>>
        /\ Dequeued(<<"force", "sell", s>>)
        /\ SetLedger(force_sell([Ledger EXCEPT !.log = <<>>], s, reply))
        /\ alerts' = force_alerts(Ledger, "sell", s, reply)
        /\ Displayed(price_history)
        /\ UNCHANGED <<price_history, running, ai_consult_counter,
                       OPENROUTER_API_KEY, last_update, clock, sym_idx, price,
                       ai_signal, ai_reason, typed, peak_equity, tripped>>

(***************************************************************************)
(* time.sleep(0.1) (line 516) and the wall-clock time that passes in one   *)
(* loop iteration.  The clock counts seconds: most iterations leave it     *)
(* unchanged, and it advances by a tick interval when no tick is due yet.  *)
(* Once a tick is due, waiting longer changes no comparison the loop       *)
(* makes, so the clock is held until the tick has run.  Runs are shorter   *)
(* than COOLDOWN seconds: no cooldown expires within them.                 *)
(***************************************************************************)
Sleep ==
    /\ UNCHANGED <<call, result, ios>>
    /\ pc = "sleep"
    /\ \/ clock' = clock
       \/ ~Due /\ clock' = clock + UPDATE_INTERVAL
    /\ pc' = "top"
    /\ alerts' = <<>>
    /\ UNCHANGED <<price_history, portfolio, sim_balance, running, cmd_queue,
                   entry_prices, last_buy_time, ai_consult_counter,
                   OPENROUTER_API_KEY, last_update, sym_idx, price, ai_signal,
                   ai_reason, trades, typed, peak_equity, tripped>>

Next ==
    \/ BotStepBegin
    \/ NoTick
    \/ BotStepSell
    \/ BotStepBuy
    \/ Enqueue
    \/ CmdStart
    \/ CmdStop
    \/ CmdReset
    \/ CmdForceBuy
    \/ CmdForceSell
    \/ PollEmpty
    \/ Sleep

Spec == Init /\ [][Next]_vars

(***************************************************************************)
(* The main loop late in a run.  Both histories hold two quotes, tick      *)
(* FeedDownTicks has run and the next one is due.  Repeated force buys     *)
(* (each overwrites the position and takes up to 3% of the cash) followed  *)
(* by a force sell have left the cash anywhere between a few dollars and   *)
(* INITIAL_BALANCE, with every symbol flat.                                *)
(***************************************************************************)
LateHists == {<<100, 100>>, <<102, 100>>}

LateLedgers ==
    {[bal |-> AInt(INITIAL_BALANCE), pf |-> EmptyDict, tripped |-> FALSE]}
      \cup {[bal |-> AInt(c), pf |-> Put(EmptyDict, SYMBOLS[2], AZero),
              tripped |-> TRUE] : c \in {300, 400, 1000}}

InitLate ==
    /\ call = NoCall
    /\ ios = IosIdle
    /\ result = <<>>
    /\ price_history \in [SymbolSet -> LateHists]
    /\ \E L \in LateLedgers :
          /\ sim_balance = L.bal
          /\ portfolio = L.pf
          /\ tripped = L.tripped
    /\ running = TRUE
    /\ cmd_queue = <<>>
    /\ entry_prices = EmptyDict
    /\ last_buy_time = EmptyDict
    /\ ai_consult_counter = FeedDownTicks
    /\ OPENROUTER_API_KEY \in BOOLEAN
    /\ last_update = FeedDownTicks * UPDATE_INTERVAL
    /\ clock = (FeedDownTicks + 1) * UPDATE_INTERVAL
    /\ pc = "top"
    /\ sym_idx = 0
    /\ price = 0
    /\ ai_signal = "None"
    /\ ai_reason = ""
    /\ trades = <<>>
    /\ typed = 0
    /\ peak_equity = AInt(INITIAL_BALANCE)
    /\ alerts = <<>>

SpecLate == InitLate /\ [][Next]_vars

(***************************************************************************)
(* The main loop just after a stop command was applied late in a run:      *)
(* running is False, the queue is empty and the loop is about to sleep.    *)
(* The position, if any, is the 12.5 BTC a force buy of 1000 USD at 80     *)
(* leaves.  The feed is up again and the next tick is due.                 *)
(***************************************************************************)
StoppedLedgers ==
    {[bal |-> AInt(INITIAL_BALANCE), pf |-> EmptyDict, ep |-> EmptyDict,
      lbt |-> EmptyDict],
     [bal |-> AInt(INITIAL_BALANCE - FORCE_BUY_CAP),
      pf  |-> Put(EmptyDict, "BTC_USDT", Amt(12, 1, 2)),
      ep  |-> Put(EmptyDict, "BTC_USDT", 80),
      lbt |-> Put(EmptyDict, "BTC_USDT", UPDATE_INTERVAL)]}

InitStopped ==
    /\ call = NoCall
    /\ ios = IosIdle
    /\ result = <<>>
    /\ price_history \in [SymbolSet -> LateHists]
    /\ \E L \in StoppedLedgers :
          /\ sim_balance = L.bal
          /\ portfolio = L.pf
          /\ entry_prices = L.ep
          /\ last_buy_time = L.lbt
    /\ running = FALSE
    /\ cmd_queue = <<>>
    /\ ai_consult_counter = FeedDownTicks + 1
    /\ OPENROUTER_API_KEY \in BOOLEAN
    /\ last_update = (FeedDownTicks + 1) * UPDATE_INTERVAL
    /\ clock = (FeedDownTicks + 2) * UPDATE_INTERVAL
    /\ pc = "sleep"
    /\ sym_idx = 0
    /\ price = 0
    /\ ai_signal = "None"
    /\ ai_reason = ""
    /\ trades = <<>>
    /\ typed = 0
    /\ peak_equity = AInt(INITIAL_BALANCE)
    /\ tripped = FALSE
    /\ alerts = <<"Bot STOPPED">>

SpecStopped == InitStopped /\ [][Next]_vars

(***************************************************************************)
(* The main loop late in a run with two commands waiting: the user typed   *)
(* them while the last tick was fetching prices.  Outside bot_step the     *)
(* main thread takes a step whenever it can (the loop has no blocking      *)
(* call: get_nowait, and time.sleep(0.1) returns), and every bot_step      *)
(* terminates (a finite loop over SYMBOLS whose requests carry timeouts);  *)
(* nothing is assumed of the input thread.                                 *)
(***************************************************************************)
InitQueued ==
    /\ call = NoCall
    /\ ios = IosIdle
    /\ result = <<>>
    /\ price_history = [s \in SymbolSet |-> <<100, 100>>]
    /\ sim_balance = AInt(INITIAL_BALANCE)
    /\ portfolio = EmptyDict
    /\ entry_prices = EmptyDict
    /\ last_buy_time = EmptyDict
    /\ tripped = FALSE
    /\ running = TRUE
    /\ cmd_queue \in [1..2 -> Commands]
    /\ ai_consult_counter = AI_CONSULT_INTERVAL
    /\ OPENROUTER_API_KEY = FALSE
    /\ last_update = AI_CONSULT_INTERVAL * UPDATE_INTERVAL
    /\ clock = (AI_CONSULT_INTERVAL + 1) * UPDATE_INTERVAL
    /\ pc = "top"
    /\ sym_idx = 0
    /\ price = 0
    /\ ai_signal = "None"
    /\ ai_reason = ""
    /\ trades = <<>>
    /\ typed = 0
    /\ peak_equity = AInt(INITIAL_BALANCE)
    /\ alerts = <<>>

\* A step of the main loop outside the body of bot_step.
MainThread ==
    \/ BotStepBegin
    \/ NoTick
    \/ CmdStart
    \/ CmdStop
    \/ CmdReset
    \/ CmdForceBuy
    \/ CmdForceSell
    \/ PollEmpty
    \/ Sleep

\* bot_step is not under way.
BetweenTicks == pc \notin {"sym", "buy"}

SpecQueued ==
    InitQueued /\ [][Next]_vars /\ WF_vars(MainThread) /\ []<>BetweenTicks

(***************************************************************************)
(* The main loop late in a run with little cash left beside a position.    *)
(* A force buy of FORCE_BUY_CAP dollars at 80 left 12.5 BTC; repeated      *)
(* force buys of the other symbol, each taking 3% of the cash, and a       *)
(* closing force sell have since brought the cash down to a few hundred    *)
(* or a few thousand dollars.                                              *)
(***************************************************************************)
ThinCash == {300, 2000}

InitThin ==
    /\ call = NoCall
    /\ ios = IosIdle
    /\ result = <<>>
    /\ price_history \in [SymbolSet -> LateHists]
    /\ sim_balance \in {AInt(c) : c \in ThinCash}
    /\ portfolio = Put(Put(EmptyDict, "BTC_USDT", Amt(12, 1, 2)),
                       "ETH_USDT", AZero)
    /\ entry_prices = Put(EmptyDict, "BTC_USDT", 80)
    /\ last_buy_time = Put(EmptyDict, "BTC_USDT", UPDATE_INTERVAL)
    /\ tripped = TRUE
    /\ running = TRUE
    /\ cmd_queue = <<>>
    /\ ai_consult_counter = FeedDownTicks
    /\ OPENROUTER_API_KEY \in BOOLEAN
    /\ last_update = FeedDownTicks * UPDATE_INTERVAL
    /\ clock = (FeedDownTicks + 1) * UPDATE_INTERVAL
    /\ pc = "top"
    /\ sym_idx = 0
    /\ price = 0
    /\ ai_signal = "None"
    /\ ai_reason = ""
    /\ trades = <<>>
    /\ typed = 0
    /\ peak_equity = AInt(INITIAL_BALANCE)
    /\ alerts = <<>>

SpecThin == InitThin /\ [][Next]_vars

(***************************************************************************)
(* While the bot is stopped the loop only polls the queue and sleeps       *)
(* (lines 467-516): StoppedWait is COOLDOWN seconds of that, with no       *)
(* command typed meanwhile.                                                *)
(***************************************************************************)
StoppedWait ==
    /\ pc = "sleep"
    /\ ~running
    /\ cmd_queue = <<>>
    /\ clock < COOLDOWN
    /\ clock' = clock + COOLDOWN
    /\ pc' = "top"
    /\ alerts' = <<>>
    /\ UNCHANGED <<price_history, portfolio, sim_balance, running, cmd_queue,
                   entry_prices, last_buy_time, ai_consult_counter,
                   OPENROUTER_API_KEY, last_update, sym_idx, price, ai_signal,
                   ai_reason, trades, typed, peak_equity, tripped, call, result,
                   ios>>

NextIdle ==
    \/ Next
    \/ StoppedWait

SpecIdle == InitStopped /\ [][NextIdle]_vars

(***************************************************************************)
(* The main loop after a long quiet run: the first quote of a symbol was   *)
(* 80 and every later one 100, so nothing was ever bought, and the         *)
(* histories hold HISTORY_CAP entries or one fewer.  The tick counter      *)
(* stands for its value modulo AI_CONSULT_INTERVAL; the last tick of the   *)
(* model is due.                                                           *)
(***************************************************************************)
QuietHistory(n) == [i \in 1..n |-> IF i = 1 THEN 80 ELSE 100]

InitFull ==
    /\ call = NoCall
    /\ ios = IosIdle
    /\ result = <<>>
    /\ price_history \in [SymbolSet -> {QuietHistory(HISTORY_CAP - 1),
                                        QuietHistory(HISTORY_CAP)}]
    /\ portfolio = EmptyDict
    /\ sim_balance = AInt(INITIAL_BALANCE)
    /\ running = TRUE
    /\ cmd_queue = <<>>
    /\ entry_prices = EmptyDict
    /\ last_buy_time = EmptyDict
    /\ ai_consult_counter = AI_CONSULT_INTERVAL
    /\ OPENROUTER_API_KEY \in BOOLEAN
    /\ last_update = AI_CONSULT_INTERVAL * UPDATE_INTERVAL
    /\ clock = (AI_CONSULT_INTERVAL + 1) * UPDATE_INTERVAL
    /\ pc = "top"
    /\ sym_idx = 0
    /\ price = 0
    /\ ai_signal = "None"
    /\ ai_reason = ""
    /\ trades = <<>>
    /\ typed = 0
    /\ peak_equity = AInt(INITIAL_BALANCE)
    /\ tripped = FALSE
    /\ alerts = <<>>

SpecFull == InitFull /\ [][Next]_vars

(***************************************************************************)
(* reset_bot as a function of the state: it is applied, once or again, to  *)
(* any state the program reaches, wherever the main thread stands.  As     *)
(* after the reset command, the display_status that follows finds the      *)
(* histories empty and ends the program.                                   *)
(***************************************************************************)
ResetCall ==
    /\ UNCHANGED <<call, result, ios>>
    /\ reset_bot
    /\ alerts' = <<"AUTO-RESET: Balance was $0">>
    /\ pc' = IF display_status_raises(EmptyHistory) THEN "dead" ELSE pc
    /\ UNCHANGED <<running, cmd_queue, ai_consult_counter, OPENROUTER_API_KEY,
                   last_update, clock, sym_idx, price, ai_signal, ai_reason,
                   trades, typed>>

NextReset ==
    \/ Next
    \/ ResetCall

SpecReset == Init /\ [][NextReset]_vars

(***************************************************************************)
(* Reading the run: the trades a step applies.                             *)
(***************************************************************************)
Qty(s) == Get(portfolio, s, AZero)

\* The symbol bot_step is working on.
CurSym == SYMBOLS[sym_idx]

\* A step of bot_step that logs a trade.
TickTrade == pc \in {"sym", "buy"} /\ Len(trades') = Len(trades) + 1

\* A command that logs a trade.
ForceTrade ==
    pc = "poll" /\ Len(cmd_queue') < Len(cmd_queue) /\ trades' # <<>>

TradeApplied == TickTrade \/ ForceTrade

BuyApplied == TradeApplied /\ trades'[Len(trades')].action = "BUY"

\* The SELL Logic step of a symbol that holds a position.
ExitStep == pc = "sym" /\ pc' = "buy" /\ ALt(AZero, Qty(CurSym))

StopLossHit ==
    RLe(profit_loss(price', Get(entry_prices, CurSym, price')),
        dyn_sl(calculate_volatility(price_history'[CurSym])))

TakeProfitHit ==
    RLe(dyn_tp(calculate_volatility(price_history'[CurSym])),
        profit_loss(price', Get(entry_prices, CurSym, price')))

(***************************************************************************)
(* The desktop variant, backup_old_ios/Paper_Trading_bot.py: what its      *)
(* bot_step does for one symbol (lines 322-406).  Its configuration        *)
(* defaults, calculate_volatility and can_buy are those of bot.py; its     *)
(* dynamic_risk averages the changes as fractions, not as percentages.     *)
(***************************************************************************)
\* dynamic_risk of the desktop variant (lines 280-289).
desktop_dynamic_risk(prices) ==
    IF Len(prices) < 2 THEN Rat(2, 100)
    ELSE IF Changes(prices) = <<>> THEN Rat(2, 100)
         ELSE LET vol == RDiv(averaged_volatility(prices), RInt(100))
              IN  RMin(RAdd(Rat(1, 100), RDiv(vol, RInt(10))), MAX_RISK_PCT)

\* SELL Logic of the desktop variant (lines 347-389).
desktop_sell_logic(L, sym, p, hist, sig, reason) ==
    LET qty   == Get(L.pf, sym, AZero)
        entry == Get(L.ep, sym, p)
    IN  IF ~(ALt(AZero, qty) /\ entry # 0) THEN L
        ELSE
        LET pl       == profit_loss(p, entry)
            vol_risk == desktop_dynamic_risk(hist)
        IN  IF RLe(pl, dyn_sl(vol_risk)) \/ RLe(dyn_tp(vol_risk), pl)
            THEN LET bal1 == AAdd(L.bal, AMulInt(qty, p))
                     why  == IF RLe(pl, dyn_sl(vol_risk))
                             THEN "Stop-Loss" ELSE "Take-Profit"
                 IN  [bal |-> bal1, pf |-> Put(L.pf, sym, AZero),
                      ep |-> Pop(L.ep, sym), lbt |-> Pop(L.lbt, sym),
                      log |-> Append(L.log, Trade(sym, "SELL", p, qty, bal1, why))]
            ELSE IF sig = "sell"
            THEN LET sell_qty == AMulRat(qty, Rat(1, 2))
                     bal1     == AAdd(L.bal, AMulInt(sell_qty, p))
                     left     == ASub(qty, sell_qty)
                 IN  [bal |-> bal1,
                      pf  |-> Put(L.pf, sym, IF ALe(left, AZero) THEN AZero ELSE left),
                      ep  |-> Pop(L.ep, sym),
                      lbt |-> Pop(L.lbt, sym),
                      log |-> Append(L.log, Trade(sym, "SELL", p, sell_qty, bal1, reason))]
            ELSE L

\* BUY Logic of the desktop variant (lines 391-406).
desktop_buy_logic(L, sym, p, hist, sig, reason, now) ==
    IF ~(can_buy(L, sym, now) /\ Len(hist) > 2) THEN L
    ELSE
    LET max_r == SeqMax(AllButLast(hist))
        drop  == drop_of(p, max_r)
    IN  IF ~(/\ RLe(drop, buy_threshold(calculate_volatility(hist)))
             /\ (sig = "buy" \/ sig = "None")) THEN L
        ELSE
        LET usd == AMulRat(L.bal, desktop_dynamic_risk(hist))
        IN  IF ~ALt(AInt(MIN_TRADE_USD), usd) THEN L
            ELSE
            LET coins == ADivInt(usd, p)
                bal1  == ASub(L.bal, usd)
            IN  [bal |-> bal1, pf |-> Put(L.pf, sym, coins), ep |-> Put(L.ep, sym, p),
                 lbt |-> Put(L.lbt, sym, now),
                 log |-> Append(L.log, Trade(sym, "BUY", p, coins, bal1, reason))]

\* Two ticks of the desktop bot_step for BTC_USDT, each with its price and
\* advisory signal; the advisory is consulted on one tick in
\* AI_CONSULT_INTERVAL, so on one of the two at most.
DesktopTicks ==
    {t \in [1..2 -> PriceVals \X (Signals \cup {"None"})] :
        t[1][2] = "None" \/ t[2][2] = "None"}

DesktopCalls == {[fn |-> "desktop_bot_step", args |-> t] : t \in DesktopTicks}

\* The desktop variant after prices 100, 100, 80: its BUY Logic has bought
\* 250 BTC at 80 with 2% of the cash.
DesktopHistory == [s \in SymbolSet |-> <<100, 100, 80>>]

DesktopLedger ==
    [bal |-> AInt(INITIAL_BALANCE - 20000),
     pf  |-> Put(EmptyDict, "BTC_USDT", AInt(250)),
     ep  |-> Put(EmptyDict, "BTC_USDT", 80),
     lbt |-> Put(EmptyDict, "BTC_USDT", UPDATE_INTERVAL)]

(***************************************************************************)
(* consult_ai reply by reply (lines 185-233).  A reply is rate limited     *)
(* ("429"), raises in the request or the decoding ("exc"), or is read      *)
(* ("ok"): json is the signal field of the JSON object in it ("none": no   *)
(* JSON object, or no valid signal in it), word the first signal word the  *)
(* fallback regex finds in the text ("none": no such word), colon tells    *)
(* whether the text has a ":", and n is the length of the text the reason  *)
(* is cut from.  A reason is the literal it comes from or "reply", with    *)
(* its length.                                                             *)
(***************************************************************************)
\* [:60]
REASON_MAX == 60

ReplyLens == {0, REASON_MAX, REASON_MAX + 1}

FailedReplies ==
    {[status |-> st, json |-> "none", word |-> "none", colon |-> FALSE, n |-> 0] :
        st \in {"429", "exc"}}

ReadReplies ==
    {[status |-> "ok", json |-> j, word |-> j, colon |-> TRUE, n |-> n] :
        j \in Signals, n \in ReplyLens}
    \cup {[status |-> "ok", json |-> "none", word |-> w, colon |-> c, n |-> n] :
             w \in Signals \cup {"none"}, c \in BOOLEAN, n \in ReplyLens}

Replies == FailedReplies \cup ReadReplies

Literal(text, n) == [text |-> text, len |-> n]

\* The length of a text of length n cut with [:60].
Cut(n) == IF n > REASON_MAX THEN REASON_MAX ELSE n

\* Lines 208-229 with every [:60] left out.
read_reply_uncut(r) ==
    IF r.json \in Signals
    THEN [signal |-> r.json, reason |-> Literal("reply", r.n)]
    ELSE IF r.word \in Signals
    THEN [signal |-> r.word,
          reason |-> IF r.colon THEN Literal("reply", r.n)
                     ELSE Literal("no reason", 9)]
    ELSE [signal |-> "hold",
          reason |-> IF r.n > 0 THEN Literal("reply", r.n)
                     ELSE Literal("no response", 11)]

\* Lines 208-229: the signal and reason read from a reply.
read_reply(r) ==
    IF r.json \in Signals
    THEN [signal |-> r.json, reason |-> Literal("reply", Cut(r.n))]
    ELSE IF r.word \in Signals
    THEN [signal |-> r.word,
          reason |-> IF r.colon THEN Literal("reply", Cut(r.n))
                     ELSE Literal("no reason", 9)]
    ELSE [signal |-> "hold",
          reason |-> IF Cut(r.n) > 0 THEN Literal("reply", Cut(r.n))
                     ELSE Literal("no response", 11)]

\* for attempt in range(3), from attempt k on; attempts counts the requests.
RECURSIVE consult_loop(_, _)
consult_loop(replies, k) ==
    IF k > AI_ATTEMPTS
    THEN [signal |-> "hold", reason |-> Literal("error", 5), attempts |-> AI_ATTEMPTS]
    ELSE IF replies[k].status \in {"429", "exc"} THEN consult_loop(replies, k + 1)
    ELSE [signal   |-> read_reply(replies[k]).signal,
          reason   |-> read_reply(replies[k]).reason,
          attempts |-> k]

consult_ai_replies(has_key, replies) ==
    IF ~has_key
    THEN [signal |-> "hold", reason |-> Literal("no key", 6), attempts |-> 0]
    ELSE consult_loop(replies, 1)

\* What the request loop of consult_ai meets in a reply (see AttemptOutcomes).
Outcome(r) ==
    IF r.status # "ok" THEN r.status
    ELSE IF r.json \in Signals THEN r.json
    ELSE IF r.word \in Signals THEN r.word
    ELSE "junk"

ConsultCalls ==
    {[fn |-> "consult_ai", args |-> <<replies>>] :
        replies \in [1..AI_ATTEMPTS -> Replies]}

(***************************************************************************)
(* The functions of bot.py that read their arguments only, called on their *)
(* own: call holds the function's name and the histories it is applied to, *)
(* one after the other, and result collects what it returned.  The         *)
(* histories are all lists of up to MaxHist prices, and lists of one or    *)
(* two prices followed by VOLATILITY_WINDOW equal ones: of their changes   *)
(* dynamic_risk averages the last VOLATILITY_WINDOW only.                  *)
(***************************************************************************)
MaxHist == 3

ShortHists == UNION {[1..n -> PriceVals] : n \in 0..MaxHist}

LongHists ==
    {h \o [i \in 1..VOLATILITY_WINDOW |-> 100] :
        h \in UNION {[1..n -> PriceVals] : n \in 1..2}}

HistArgs == ShortHists \cup LongHists

\* The histories a first one is compared with: those of up to two prices and
\* the long ones.
SecondHists == LongHists \cup UNION {[1..n -> PriceVals] : n \in 0..2}

PureCalls ==
    {[fn |-> "calculate_volatility", args |-> <<h>>] : h \in HistArgs}
        \cup {[fn |-> "dynamic_risk", args |-> <<h1, h2>>] :
                    h1 \in HistArgs, h2 \in SecondHists}

\* display_status is called twice in a row, in a state of the program: before
\* the first quote or after some, flat or with the 12.5 BTC a force buy of
\* 1000 USD at 80 leaves.
DisplayCall == [fn |-> "display_status", args |-> << <<>>, <<>> >>]

DisplayLedgers ==
    {[bal |-> AInt(INITIAL_BALANCE), pf |-> EmptyDict, ep |-> EmptyDict,
      lbt |-> EmptyDict],
     [bal |-> AInt(INITIAL_BALANCE - FORCE_BUY_CAP),
      pf  |-> Put(EmptyDict, "BTC_USDT", Amt(12, 1, 2)),
      ep  |-> Put(EmptyDict, "BTC_USDT", 80),
      lbt |-> Put(EmptyDict, "BTC_USDT", UPDATE_INTERVAL)]}

DisplayHists == {<<>>, <<80>>, <<80, 100>>, <<80, 102>>}

InitPure ==
    /\ \/ /\ call \in PureCalls
          /\ price_history = EmptyHistory
          /\ sim_balance = AInt(INITIAL_BALANCE)
          /\ portfolio = EmptyDict
          /\ entry_prices = EmptyDict
          /\ last_buy_time = EmptyDict
       \/ /\ call = DisplayCall
          /\ price_history \in [SymbolSet -> DisplayHists]
          /\ \E L \in DisplayLedgers :
                /\ sim_balance = L.bal
                /\ portfolio = L.pf
                /\ entry_prices = L.ep
                /\ last_buy_time = L.lbt
       \/ /\ call \in ConsultCalls
          /\ price_history = EmptyHistory
          /\ sim_balance = AInt(INITIAL_BALANCE)
          /\ portfolio = EmptyDict
          /\ entry_prices = EmptyDict
          /\ last_buy_time = EmptyDict
       \/ /\ call \in DesktopCalls
          /\ price_history = DesktopHistory
          /\ sim_balance = DesktopLedger.bal
          /\ portfolio = DesktopLedger.pf
          /\ entry_prices = DesktopLedger.ep
          /\ last_buy_time = DesktopLedger.lbt
    /\ trades = <<>>
    /\ result = <<>>
    /\ ios = IosIdle
    /\ running = TRUE
    /\ cmd_queue = <<>>
    /\ ai_consult_counter = 0
    /\ OPENROUTER_API_KEY \in (IF call.fn = "consult_ai" THEN BOOLEAN ELSE {FALSE})
    /\ last_update = 0
    /\ clock = UPDATE_INTERVAL
    /\ pc = "top"
    /\ sym_idx = 0
    /\ price = 0
    /\ ai_signal = "None"
    /\ ai_reason = ""
    /\ typed = 0
    /\ peak_equity = AInt(INITIAL_BALANCE)
    /\ tripped = FALSE
    /\ alerts = <<>>

\* The function has not been applied to all the arguments of the call yet.
Pending == Len(result) < Len(call.args)

NextArg == call.args[Len(result) + 1]

ProgramUntouched ==
    UNCHANGED <<price_history, portfolio, sim_balance, running, cmd_queue,
                entry_prices, last_buy_time, ai_consult_counter,
                OPENROUTER_API_KEY, last_update, clock, pc, sym_idx, price,
                ai_signal, ai_reason, trades, typed, peak_equity, tripped,
                alerts, call, ios>>

CallVolatility ==
    /\ call.fn = "calculate_volatility"
    /\ Pending
    /\ result' = Append(result, calculate_volatility(NextArg))
    /\ ProgramUntouched

CallRisk ==
    /\ call.fn = "dynamic_risk"
    /\ Pending
    /\ result' = Append(result, dynamic_risk(NextArg))
    /\ ProgramUntouched

\* Lines 405-406 of display_status, and nothing else of it that the ledger
\* could notice: the screen output is not part of the state.
CallDisplayStatus ==
    /\ call.fn = "display_status"
    /\ Pending
    /\ LET out == display_total(sim_balance, portfolio, price_history)
       IN  /\ result' = Append(result, out.value)
           /\ portfolio' = out.pf
           /\ price_history' = out.hist
    /\ UNCHANGED <<sim_balance, running, cmd_queue, entry_prices, last_buy_time,
                   ai_consult_counter, OPENROUTER_API_KEY, last_update, clock,
                   pc, sym_idx, price, ai_signal, ai_reason, trades, typed,
                   peak_equity, tripped, alerts, call, ios>>

\* One tick of the desktop bot_step for BTC_USDT (lines 323-406): the price is
\* skipped when unusable, else appended, and the SELL and BUY Logic run.
\* result collects the trades each tick logged.
CallDesktopStep ==
    /\ call.fn = "desktop_bot_step"
    /\ Pending
    /\ LET sym  == "BTC_USDT"
           p    == NextArg[1]
           sig  == NextArg[2]
           why  == IF sig = "None" THEN "" ELSE "reason"
           hist == append_price(price_history[sym], p)
           L0   == [Ledger EXCEPT !.log = <<>>]
           L1   == desktop_sell_logic(L0, sym, p, hist, sig, why)
           L2   == desktop_buy_logic(L1, sym, p, hist, sig, why, clock)
       IN  IF p <= 0
           THEN /\ result' = Append(result, <<>>)
                /\ UNCHANGED <<price_history, portfolio, sim_balance,
                               entry_prices, last_buy_time, trades, price,
                               ai_signal, ai_reason>>
           ELSE /\ result' = Append(result, L2.log)
                /\ price_history' = [price_history EXCEPT ![sym] = hist]
                /\ SetLedger(L2)
                /\ price' = p
                /\ ai_signal' = sig
                /\ ai_reason' = why
    /\ UNCHANGED <<running, cmd_queue, ai_consult_counter, OPENROUTER_API_KEY,
                   last_update, clock, pc, sym_idx, typed, peak_equity, tripped,
                   alerts, call, ios>>

\* consult_ai on the replies its requests get; of the globals it writes only
\* ai_raw, which the model does not hold.
CallConsultAI ==
    /\ call.fn = "consult_ai"
    /\ Pending
    /\ result' = Append(result, consult_ai_replies(OPENROUTER_API_KEY, NextArg))
    /\ ProgramUntouched

NextPure ==
    \/ CallVolatility
    \/ CallRisk
    \/ CallDisplayStatus
    \/ CallDesktopStep
    \/ CallConsultAI

SpecPure == InitPure /\ [][NextPure]_vars

(***************************************************************************)
(* C1.  Conservation: for every trade applied to the ledger, cash plus the *)
(* traded symbol's quantity valued at the traded price is the same before  *)
(* and after the trade.                                                    *)
(***************************************************************************)
C1_Conservation ==
    [][TradeApplied =>
          LET r == trades'[Len(trades')]
          IN  AAdd(sim_balance', AMulInt(Get(portfolio', r.sym, AZero), r.price))
                = AAdd(sim_balance, AMulInt(Qty(r.sym), r.price))]_vars

(***************************************************************************)
(* C2.  Stop-loss is a full exit for every advisory value: when a tick     *)
(* processes a held symbol whose profit/loss is at or below the dynamic    *)
(* stop-loss, then after the SELL Logic the quantity is 0, the entry price *)
(* and the cooldown timestamp are gone, cash has grown by quantity x price *)
(* and one SELL record with reason Stop-Loss is logged.                    *)
(***************************************************************************)
C2_StopLossFullExit ==
    [][(ExitStep /\ StopLossHit) =>
          /\ Get(portfolio', CurSym, AZero) = AZero
          /\ CurSym \notin DOMAIN entry_prices'
          /\ CurSym \notin DOMAIN last_buy_time'
          /\ sim_balance' = AAdd(sim_balance, AMulInt(Qty(CurSym), price'))
          /\ trades' = Append(trades, Trade(CurSym, "SELL", price', Qty(CurSym),
                                            sim_balance', "Stop-Loss"))]_vars

(***************************************************************************)
(* C3.  Take-profit is a full exit for every advisory value: when a tick   *)
(* processes a held symbol, the stop-loss condition is false and the       *)
(* profit/loss is at or above the dynamic take-profit, then after the SELL *)
(* Logic the quantity is 0, the entry price is gone, cash has grown by     *)
(* quantity x price and one SELL record with reason Take-Profit is logged. *)
(***************************************************************************)
C3_TakeProfitFullExit ==
    [][(ExitStep /\ ~StopLossHit /\ TakeProfitHit) =>
          /\ Get(portfolio', CurSym, AZero) = AZero
          /\ CurSym \notin DOMAIN entry_prices'
          /\ sim_balance' = AAdd(sim_balance, AMulInt(Qty(CurSym), price'))
          /\ trades' = Append(trades, Trade(CurSym, "SELL", price', Qty(CurSym),
                                            sim_balance', "Take-Profit"))]_vars

(***************************************************************************)
(* C4.  At most one trade per tick per symbol: the records one run of      *)
(* bot_step logs never hold two trades of the same symbol.                 *)
(***************************************************************************)
C4_OneTradePerTickPerSymbol ==
    \A i, j \in DOMAIN trades : i # j => trades[i].sym # trades[j].sym

(***************************************************************************)
(* C5.  Advisory failure is fail-open: when consult_ai failed (no key, or  *)
(* every attempt raised or was rate-limited) and the symbol may be bought  *)
(* and its drop meets the entry threshold, the BUY Logic leaves cash,      *)
(* portfolio, entry prices and cooldowns exactly as it would with no       *)
(* consultation (ai_signal None).                                          *)
(***************************************************************************)
C5_AdvisoryFailOpen ==
    [][(/\ pc = "buy"
        /\ ai_reason \in {"no key", "error"}
        /\ can_buy(Ledger, CurSym, clock)) =>
          LET hist == price_history[CurSym]
              L0   == buy_logic(Ledger, CurSym, price, hist,
                                calculate_volatility(hist), "None", "", clock)
          IN  /\ sim_balance' = L0.bal
              /\ portfolio' = L0.pf
              /\ entry_prices' = L0.ep
              /\ last_buy_time' = L0.lbt]_vars

(***************************************************************************)
(* C6.  In every reachable state cash is not negative and no symbol's      *)
(* quantity is negative.                                                   *)
(***************************************************************************)
C6_NonNegative ==
    /\ ALe(AZero, sim_balance)
    /\ \A s \in SymbolSet : ALe(AZero, Qty(s))

(***************************************************************************)
(* C7.  In every reachable state a symbol has an entry price if and only   *)
(* if its quantity is greater than 0.                                      *)
(***************************************************************************)
C7_EntryIffHeld ==
    \A s \in SymbolSet : (s \in DOMAIN entry_prices) <=> ALt(AZero, Qty(s))

(***************************************************************************)
(* C8.  Drawdown guard: once a tick has ended with the drawdown from the   *)
(* peak equity at or above max_global_drawdown, no buy (automatic or       *)
(* forced) is applied until a reset.                                       *)
(***************************************************************************)
C8_DrawdownHaltsEntries ==
    [][tripped => ~BuyApplied]_vars

(***************************************************************************)
(* C9.  A position is opened only from flat: every buy applied to the      *)
(* ledger finds the symbol's quantity exactly 0 and can_buy true.          *)
(***************************************************************************)
C9_BuyOnlyFromFlat ==
    [][BuyApplied =>
          LET r == trades'[Len(trades')]
          IN  /\ Qty(r.sym) = AZero
              /\ can_buy(Ledger, r.sym, clock)]_vars

(***************************************************************************)
(* C10.  Entry drop threshold: an automatic buy happens only when the      *)
(* fractional fall of the price from the maximum of the earlier history    *)
(* entries is at most -0.02 x (1 + volatility).                            *)
(***************************************************************************)
C10_EntryDropThreshold ==
    [][(pc = "buy" /\ TickTrade) =>
          LET hist  == price_history[CurSym]
              max_r == SeqMax(AllButLast(hist))
          IN  RLe(Rat(price - max_r, max_r),
                  buy_threshold(calculate_volatility(hist)))]_vars


\* The BUY Logic step of the symbol in hand (the input thread may step instead).
BuyStep == pc = "buy" /\ pc' # "buy"

\* The entry conditions of the BUY Logic for the symbol in hand (lines 374-378).
EntryConditions ==
    LET hist == price_history[CurSym]
    IN  /\ can_buy(Ledger, CurSym, clock)
        /\ Len(hist) > 2
        /\ RLe(drop_of(price, SeqMax(AllButLast(hist))),
               buy_threshold(calculate_volatility(hist)))
        /\ ai_signal \in {"buy", "None"}

(***************************************************************************)
(* C11.  Entry sizing: when the BUY Logic finds its entry conditions true, *)
(* usd = cash x dynamic_risk(history).  If usd exceeds the minimum trade   *)
(* size the buy is applied: quantity = usd / price, cash falls by exactly  *)
(* usd, the entry price is the price, the cooldown timestamp is set, and   *)
(* usd is not more than the cash.  Otherwise cash, quantities, entry       *)
(* prices and cooldowns are unchanged.                                     *)
(***************************************************************************)
C11_EntrySizing ==
    [][(BuyStep /\ EntryConditions) =>
          LET usd == AMulRat(sim_balance, dynamic_risk(price_history[CurSym]))
          IN  IF ALt(AInt(MIN_TRADE_USD), usd)
              THEN /\ ALe(usd, sim_balance)
                   /\ AAdd(sim_balance', usd) = sim_balance
                   /\ AMulInt(portfolio'[CurSym], price) = usd
                   /\ portfolio' = Put(portfolio, CurSym, portfolio'[CurSym])
                   /\ entry_prices' = Put(entry_prices, CurSym, price)
                   /\ last_buy_time' = Put(last_buy_time, CurSym, clock)
              ELSE UNCHANGED <<sim_balance, portfolio, entry_prices,
                               last_buy_time, trades>>]_vars

\* A tick without consultation has found the last symbol flat, off cooldown
\* and fallen from its earlier maximum, with cash x dynamic_risk at or under
\* the minimum trade size, and has ended with no trade.
C11_DeclinedReached ==
    LET s    == SYMBOLS[Len(SYMBOLS)]
        hist == price_history[s]
    IN  /\ pc = "poll"
        /\ ai_consult_counter = FeedDownTicks + 1
        /\ trades = <<>>
        /\ Len(hist) = 3
        /\ can_buy(Ledger, s, clock)
        /\ RLe(drop_of(last_price(hist), SeqMax(AllButLast(hist))),
               buy_threshold(calculate_volatility(hist)))
        /\ ~ALt(AInt(MIN_TRADE_USD), AMulRat(sim_balance, dynamic_risk(hist)))

(***************************************************************************)
(* C12.  Advisory veto: when the advisory obtained this tick for the       *)
(* symbol is sell or hold, the BUY Logic buys nothing and leaves the       *)
(* ledger alone, whatever the price drop; an automatic buy happens only    *)
(* when the signal obtained this tick is buy, or when no advisory was      *)
(* consulted this tick.                                                    *)
(***************************************************************************)
C12_AdvisoryVeto ==
    [][BuyStep =>
          /\ ai_signal \in {"sell", "hold"} =>
                UNCHANGED <<sim_balance, portfolio, entry_prices, last_buy_time,
                            trades>>
          /\ TickTrade =>
                \/ ai_signal = "buy"
                \/ /\ ai_signal = "None"
                   /\ ~Consults(ai_consult_counter, price_history[CurSym])]_vars

\* The BUY Logic is reached with an advisory of hold or sell parsed from a
\* reply, for a symbol that is flat, off cooldown and fallen below the entry
\* threshold, with cash for a trade above the minimum size.
C12_VetoReached ==
    /\ pc = "buy"
    /\ ai_signal \in {"sell", "hold"}
    /\ ai_reason = "reason"
    /\ can_buy(Ledger, CurSym, clock)
    /\ Len(price_history[CurSym]) > 2
    /\ RLe(drop_of(price, SeqMax(AllButLast(price_history[CurSym]))),
           buy_threshold(calculate_volatility(price_history[CurSym])))
    /\ ALt(AInt(MIN_TRADE_USD),
           AMulRat(sim_balance, dynamic_risk(price_history[CurSym])))

\* The SELL Logic step logs a sale of the whole quantity with the given reason.
FullExitLogged(reason) ==
    /\ Len(trades') = Len(trades) + 1
    /\ LET r == trades'[Len(trades')]
       IN  /\ r.sym = CurSym
           /\ r.action = "SELL"
           /\ r.qty = Qty(CurSym)
           /\ r.reason = reason

\* The SELL Logic step takes the advisory branch: half the quantity is sold
\* (lines 358-366).
PartialSellTaken ==
    /\ Len(trades') = Len(trades) + 1
    /\ trades'[Len(trades')].qty = AMulRat(Qty(CurSym), Rat(1, 2))

(***************************************************************************)
(* C13.  Exit priority: for an open position, when the stop-loss condition *)
(* holds the SELL Logic takes the Stop-Loss exit, also when the            *)
(* take-profit condition or an advisory sell holds; otherwise when the     *)
(* take-profit condition holds it takes the Take-Profit exit, also when    *)
(* the advisory is sell; the advisory partial sell is taken only when      *)
(* neither threshold condition holds.                                      *)
(***************************************************************************)
C13_ExitPriority ==
    [][ExitStep =>
          /\ StopLossHit => FullExitLogged("Stop-Loss")
          /\ (~StopLossHit /\ TakeProfitHit) => FullExitLogged("Take-Profit")
          /\ PartialSellTaken =>
                (~StopLossHit /\ ~TakeProfitHit /\ ai_signal' = "sell")]_vars

\* The SELL Logic has just met a threshold together with an advisory sell and
\* logged the threshold exit.
C13_ThresholdOverAdvisory ==
    /\ pc = "buy"
    /\ ai_signal = "sell"
    /\ trades # <<>>
    /\ trades[Len(trades)].sym = CurSym
    /\ trades[Len(trades)].reason \in {"Stop-Loss", "Take-Profit"}

(***************************************************************************)
(* C14.  Advisory partial sell: when a position is open, neither the       *)
(* stop-loss nor the take-profit condition holds and the advisory obtained *)
(* this tick is sell, the SELL Logic sells exactly half the quantity: cash *)
(* grows by half the quantity x price, the remaining half is above 0, the  *)
(* entry price and the cooldown timestamp are unchanged, and one SELL      *)
(* record with reason AI-Sell is logged.                                   *)
(***************************************************************************)
C14_AdvisoryPartialSell ==
    [][(ExitStep /\ ~StopLossHit /\ ~TakeProfitHit /\ ai_signal' = "sell") =>
          LET half == AMulRat(Qty(CurSym), Rat(1, 2))
          IN  /\ portfolio' = Put(portfolio, CurSym, half)
              /\ ALt(AZero, half)
              /\ sim_balance' = AAdd(sim_balance, AMulInt(half, price'))
              /\ UNCHANGED <<entry_prices, last_buy_time>>
              /\ trades' = Append(trades, Trade(CurSym, "SELL", price', half,
                                                sim_balance', "AI-Sell"))]_vars

(***************************************************************************)
(* C15.  Minimum history: on a tick where the symbol's history, after the  *)
(* new price is appended, has fewer than 3 entries, no decision is made    *)
(* for the symbol: the advisory is not consulted, and neither the SELL     *)
(* Logic nor the BUY Logic changes cash, quantities, entry prices or       *)
(* cooldowns or logs a trade, also for a position opened by force buy.     *)
(***************************************************************************)
C15_MinimumHistory ==
    [][/\ (pc = "sym" /\ pc' = "buy" /\ Len(price_history'[CurSym]) < 3) =>
             /\ ai_signal' = "None"
             /\ UNCHANGED <<sim_balance, portfolio, entry_prices, last_buy_time,
                            trades>>
       /\ (BuyStep /\ Len(price_history[CurSym]) < 3) =>
             UNCHANGED <<sim_balance, portfolio, entry_prices, last_buy_time,
                         trades>>]_vars

\* bot_step is part-way through a tick.
MidTick == pc \in {"sym", "buy"}

(***************************************************************************)
(* C16.  Command/tick serialization: a command is taken from the queue and *)
(* applied only between ticks.  While bot_step is part-way through a tick  *)
(* the input thread can only add to the queue: such a step leaves cash,    *)
(* portfolio, entry prices, cooldowns, histories and the running flag      *)
(* unchanged.                                                              *)
(***************************************************************************)
C16_CommandsBetweenTicks ==
    [][/\ Len(cmd_queue') < Len(cmd_queue) => ~MidTick
       /\ (MidTick /\ cmd_queue' # cmd_queue) =>
             /\ Len(cmd_queue') = Len(cmd_queue) + 1
             /\ UNCHANGED <<sim_balance, portfolio, entry_prices, last_buy_time,
                            price_history, running, pc, sym_idx>>]_vars

\* A reset or force command is waiting in the queue while bot_step is
\* part-way through a tick that has already traded.
C16_CommandWaitsMidTick ==
    /\ MidTick
    /\ trades # <<>>
    /\ cmd_queue # <<>>
    /\ Head(cmd_queue)[1] \in {"reset", "force"}

\* The ledger and the histories are as the program starts with them
\* (lines 82-89).
LedgerIsInitial ==
    /\ sim_balance = AInt(INITIAL_BALANCE)
    /\ \A s \in SymbolSet :
          /\ Qty(s) = AZero
          /\ s \notin DOMAIN entry_prices
          /\ s \notin DOMAIN last_buy_time
          /\ price_history[s] = <<>>

\* The reset command is taken from the queue.
ResetCommand == pc = "poll" /\ cmd_queue # <<>> /\ Head(cmd_queue) = <<"reset">>

(***************************************************************************)
(* C17.  Reset is a full restart: whenever reset_bot is applied, by the    *)
(* reset command or to any other reachable state, cash is INITIAL_BALANCE  *)
(* afterwards, every symbol has quantity 0, no entry price and no cooldown *)
(* timestamp, and every history is empty; applied to a state that a reset  *)
(* has left, it changes nothing.                                           *)
(***************************************************************************)
C17_ResetIsFullRestart ==
    [][((ResetCommand /\ Len(cmd_queue') < Len(cmd_queue)) \/ ResetCall) =>
          /\ LedgerIsInitial'
          /\ (LedgerIsInitial /\ pc = "dead") =>
                UNCHANGED <<sim_balance, portfolio, entry_prices, last_buy_time,
                            price_history, peak_equity, tripped, pc>>]_vars

\* A reset has been applied after the first tick: the histories, which every
\* tick that returns leaves non-empty, are empty.
C17_ResetReached ==
    /\ pc = "dead"
    /\ ai_consult_counter > 1
    /\ price_history = EmptyHistory
    /\ LedgerIsInitial

\* bot_step leaves the symbol in hand by "continue" (line 315).
SkipStep == pc = "sym" /\ sym_idx' # sym_idx

\* bot_step goes on with the symbol in hand (lines 317-371).
ProcessStep == pc = "sym" /\ pc' = "buy"

(***************************************************************************)
(* C18.  Price unavailable: a symbol is processed only with a positive     *)
(* price, which is appended to its history alone.  A symbol whose price is *)
(* missing or not positive is skipped: the step leaves every history,      *)
(* quantity, entry price and cooldown and the cash unchanged and logs no   *)
(* trade, and the tick goes on with the next symbol.                       *)
(***************************************************************************)
C18_PriceUnavailableSkips ==
    [][/\ SkipStep =>
             /\ UNCHANGED <<price_history, portfolio, sim_balance, entry_prices,
                            last_buy_time, trades>>
             /\ sym_idx < Len(SYMBOLS) => (pc' = "sym" /\ sym_idx' = sym_idx + 1)
       /\ ProcessStep =>
             /\ price' > 0
             /\ price_history' =
                   [price_history EXCEPT ![CurSym] = append_price(@, price')]
       /\ pc = "sym" => (SkipStep \/ ProcessStep \/ UNCHANGED <<pc, sym_idx>>)]_vars

\* In the first tick after the feed comes back, the first symbol, which holds
\* a position, has been skipped (its history still has the one quote of tick
\* 1) and the second symbol is processed.
C18_SkippedAndProcessed ==
    /\ pc = "buy"
    /\ sym_idx = 2
    /\ ai_consult_counter = FeedDownTicks + 1
    /\ Len(price_history[SYMBOLS[1]]) = 1
    /\ Len(price_history[SYMBOLS[2]]) = 2
    /\ ALt(AZero, Qty(SYMBOLS[1]))
    /\ SYMBOLS[1] \in DOMAIN entry_prices

\* A step that logs a sale and leaves the sold symbol's quantity at 0.
FullExitApplied ==
    /\ TradeApplied
    /\ trades'[Len(trades')].action = "SELL"
    /\ Get(portfolio', trades'[Len(trades')].sym, AZero) = AZero

(***************************************************************************)
(* C19.  A full exit re-enables entry: right after any sale that leaves    *)
(* the symbol's quantity at 0 (stop-loss, take-profit or force sell) the   *)
(* symbol has no cooldown timestamp and can_buy is true for it, however    *)
(* recent the buy was.                                                     *)
(***************************************************************************)
C19_FullExitReenablesEntry ==
    [][FullExitApplied =>
          LET s == trades'[Len(trades')].sym
          IN  /\ s \notin DOMAIN last_buy_time'
              /\ can_buy([bal |-> sim_balance', pf |-> portfolio',
                          ep |-> entry_prices', lbt |-> last_buy_time',
                          log |-> trades'], s, clock')]_vars

\* A position bought less than COOLDOWN seconds ago has just been sold in
\* full, and the symbol may be bought again.
C19_ExitedWithinCooldown ==
    /\ trades # <<>>
    /\ trades[Len(trades)].action = "SELL"
    /\ LET s == trades[Len(trades)].sym
       IN  /\ s \in DOMAIN portfolio
           /\ portfolio[s] = AZero
           /\ s \notin DOMAIN last_buy_time
           /\ can_buy(Ledger, s, clock)
    /\ clock < COOLDOWN

\* A force command is taken from the queue and applies no trade.
ForceRejected ==
    /\ pc = "poll"
    /\ cmd_queue # <<>>
    /\ Head(cmd_queue)[1] = "force"
    /\ Len(cmd_queue') < Len(cmd_queue)
    /\ trades' = <<>>

\* The BUY Logic meets its entry conditions with usd at or under the minimum
\* trade size (line 381 false) and buys nothing.
EntryDeclined ==
    /\ BuyStep
    /\ EntryConditions
    /\ ~ALt(AInt(MIN_TRADE_USD),
            AMulRat(sim_balance, dynamic_risk(price_history[CurSym])))

(***************************************************************************)
(* C20.  Rejected actions are discoverable: a force command that applies   *)
(* no trade (force sell of a symbol with quantity 0, force buy with cash   *)
(* at or under 10, or a failed price fetch) and an automatic entry         *)
(* declined because usd is at or under 10 each send a notification or an   *)
(* alert; none is a silent no-op.                                          *)
(***************************************************************************)
C20_RejectionsDiscoverable ==
    [][(ForceRejected \/ EntryDeclined) => alerts' # <<>>]_vars

\* The command force sell <s> is taken from the queue.
ForceSellTaken(s) ==
    /\ pc = "poll"
    /\ cmd_queue # <<>>
    /\ Head(cmd_queue) = <<"force", "sell", s>>
    /\ Len(cmd_queue') < Len(cmd_queue)

(***************************************************************************)
(* C21.  Sell on a flat position is rejected: a force sell of a symbol     *)
(* whose quantity is 0 leaves cash, portfolio, entry prices and cooldowns  *)
(* unchanged and logs no trade, and bot_step never logs a SELL of a symbol *)
(* whose quantity is 0.                                                    *)
(***************************************************************************)
C21_FlatSellRejected ==
    [][/\ \A s \in SymbolSet :
             (ForceSellTaken(s) /\ Qty(s) = AZero) =>
                /\ UNCHANGED <<sim_balance, portfolio, entry_prices,
                               last_buy_time>>
                /\ trades' = <<>>
       /\ (TickTrade /\ trades'[Len(trades')].action = "SELL") =>
             Qty(trades'[Len(trades')].sym) # AZero]_vars

\* The command force sell is about to be taken for a symbol that was bought
\* and sold before, so that its quantity is 0.
C21_FlatForceSellReached ==
    /\ pc = "poll"
    /\ cmd_queue # <<>>
    /\ Head(cmd_queue)[1] = "force"
    /\ Head(cmd_queue)[2] = "sell"
    /\ Head(cmd_queue)[3] \in DOMAIN portfolio
    /\ portfolio[Head(cmd_queue)[3]] = AZero

\* A force command is taken from the queue.
ForceTaken ==
    /\ pc = "poll"
    /\ cmd_queue # <<>>
    /\ Head(cmd_queue)[1] = "force"
    /\ Len(cmd_queue') < Len(cmd_queue)

\* A step of bot_step on the symbol in hand.
TickStep == MidTick /\ (pc' # pc \/ sym_idx' # sym_idx)

\* The step changes the cash or some symbol's quantity.
HoldingsChanged ==
    \/ sim_balance' # sim_balance
    \/ \E s \in SymbolSet : Get(portfolio', s, AZero) # Qty(s)

\* The record r tells the change the step makes to the cash and the
\* quantities.
RecordMatches(r) ==
    /\ r.bal = sim_balance'
    /\ \A s \in SymbolSet \ {r.sym} : Get(portfolio', s, AZero) = Qty(s)
    /\ r.action = "BUY" =>
          /\ Get(portfolio', r.sym, AZero) = AAdd(Qty(r.sym), r.qty)
          /\ AAdd(sim_balance', AMulInt(r.qty, r.price)) = sim_balance
    /\ r.action = "SELL" =>
          /\ AAdd(Get(portfolio', r.sym, AZero), r.qty) = Qty(r.sym)
          /\ sim_balance' = AAdd(sim_balance, AMulInt(r.qty, r.price))

(***************************************************************************)
(* C22.  Trade events match state changes: a step of bot_step or a force   *)
(* command that changes the cash or a quantity logs exactly one record,    *)
(* whose side, price and quantity are those of the change and whose        *)
(* balance is the cash after it; a step that changes neither logs none.    *)
(***************************************************************************)
C22_EventsMatchChanges ==
    [][(TickStep \/ ForceTaken) =>
          LET base == IF ForceTaken THEN <<>> ELSE trades
          IN  IF HoldingsChanged
              THEN /\ Len(trades') = Len(base) + 1
                   /\ trades' = Append(base, trades'[Len(trades')])
                   /\ RecordMatches(trades'[Len(trades')])
              ELSE trades' = base]_vars

\* Every history has at most HISTORY_CAP entries, all strictly positive.
HistoryBounded ==
    \A s \in SymbolSet :
        /\ Len(price_history[s]) <= HISTORY_CAP
        /\ \A i \in DOMAIN price_history[s] : price_history[s][i] > 0

\* The step runs reset_bot: the reset command, or the auto-reset of bot_step.
ResetStep ==
    \/ ResetCommand /\ Len(cmd_queue') < Len(cmd_queue)
    \/ pc = "top" /\ pc' # "top" /\ running /\ Due /\ ALe(sim_balance, AZero)

(***************************************************************************)
(* C23.  Price history invariant: every history has at most 100 entries,   *)
(* all strictly positive.  A step that processes a symbol with a positive  *)
(* price puts exactly that price at the end of the symbol's history and,   *)
(* when the history already had 100 entries, removes exactly the oldest.   *)
(* Any other change of a history is a reset, which empties all of them.    *)
(***************************************************************************)
C23_HistoryInvariant ==
    /\ []HistoryBounded
    /\ [][/\ ProcessStep =>
                LET h == price_history[CurSym]
                IN  /\ price' > 0
                    /\ price_history'[CurSym] =
                          IF Len(h) >= HISTORY_CAP
                          THEN SubSeq(h, 2, Len(h)) \o <<price'>>
                          ELSE h \o <<price'>>
          /\ \A s \in SymbolSet :
                price_history'[s] # price_history[s] =>
                   \/ ProcessStep /\ s = CurSym
                   \/ ResetStep /\ price_history' = EmptyHistory]_vars

\* A symbol has just been processed with a full history: the oldest entry,
\* 80, is gone and the history still has HISTORY_CAP entries.
C23_EvictionReached ==
    /\ pc = "buy"
    /\ Len(price_history[CurSym]) = HISTORY_CAP
    /\ price_history[CurSym][1] = 100
    /\ price_history[CurSym][HISTORY_CAP] = price
    /\ price \in {80, 102}

\* bot_step begins a tick (line 311 is reached), or auto-resets instead.
TickBegins == pc = "top" /\ pc' = "sym"

Clamp(x, lo, hi) == IF RLt(x, lo) THEN lo ELSE IF RLt(hi, x) THEN hi ELSE x

AllPositive(h) == \A i \in DOMAIN h : h[i] > 0

HasZeroMin(h) == (\E i \in DOMAIN h : h[i] = 0) /\ (\A i \in DOMAIN h : h[i] >= 0)

(***************************************************************************)
(* C25.  Volatility estimator: calculate_volatility on a history of        *)
(* positive prices returns a ratio in [0.01, 0.05], which is               *)
(* (max - min)/min limited to that interval; on a history with fewer than  *)
(* 2 entries, or whose minimum is 0, it returns 0.01 (a ratio with a       *)
(* non-zero denominator: nothing was divided by zero).                     *)
(***************************************************************************)
C25_VolatilityClamped ==
    (call.fn = "calculate_volatility" /\ result # <<>>) =>
        LET h == call.args[1]
            r == result[1]
        IN  /\ r[2] > 0
            /\ AllPositive(h) =>
                  /\ RLe(Rat(1, 100), r) /\ RLe(r, Rat(5, 100))
                  /\ Len(h) >= 2 =>
                        r = Clamp(Rat(SeqMax(h) - SeqMin(h), SeqMin(h)),
                                  Rat(1, 100), Rat(5, 100))
            /\ (Len(h) < 2 \/ HasZeroMin(h)) => r = Rat(1, 100)

\* calculate_volatility has returned the upper limit for a history of positive
\* prices whose spread is larger than 5%.
C25_UpperClampReached ==
    /\ call.fn = "calculate_volatility"
    /\ result = <<Rat(5, 100)>>
    /\ AllPositive(call.args[1])
    /\ Len(call.args[1]) >= 2
    /\ RLt(Rat(5, 100), Rat(SeqMax(call.args[1]) - SeqMin(call.args[1]),
                            SeqMin(call.args[1])))

\* The history has a change dynamic_risk averages (a non-zero price followed
\* by another price).
HasChanges(h) == Len(h) >= 2 /\ Changes(h) # <<>>

(***************************************************************************)
(* C26.  Risk fraction: dynamic_risk returns a fraction in                 *)
(* [0.01, MAX_RISK_PCT] for every price history, and of two histories the  *)
(* one with the smaller averaged volatility does not get the larger        *)
(* fraction.                                                               *)
(***************************************************************************)
C26_RiskFractionBounded ==
    call.fn = "dynamic_risk" =>
        /\ \A i \in DOMAIN result :
              /\ RLe(Rat(1, 100), result[i])
              /\ RLe(result[i], MAX_RISK_PCT)
        /\ ( /\ Len(result) = 2
             /\ HasChanges(call.args[1])
             /\ HasChanges(call.args[2])
             /\ RLt(averaged_volatility(call.args[1]),
                    averaged_volatility(call.args[2])) )
              => RLe(result[1], result[2])

\* dynamic_risk has returned a fraction below the cap for a calm history and
\* the cap for a more volatile one.
C26_CappedAboveCalmReached ==
    /\ call.fn = "dynamic_risk"
    /\ Len(result) = 2
    /\ HasChanges(call.args[1])
    /\ HasChanges(call.args[2])
    /\ RLt(averaged_volatility(call.args[1]), averaged_volatility(call.args[2]))
    /\ RLt(Rat(1, 100), result[1])
    /\ RLt(result[1], result[2])
    /\ result[2] = MAX_RISK_PCT
    /\ RLt(RInt(1), averaged_volatility(call.args[2]))

\* display_status computes the total equity.
EquityComputed == call.fn = "display_status" /\ Len(result') = Len(result) + 1

(***************************************************************************)
(* C27.  Mark-to-market is read-only: computing the total equity as        *)
(* display_status does (cash plus each quantity at the last price of its   *)
(* history) leaves the cash, the portfolio, the entry prices, the          *)
(* cooldowns and the histories unchanged, and computing it again in the    *)
(* same state gives the same value.                                        *)
(***************************************************************************)
C27_MarkToMarketReadOnly ==
    [][EquityComputed =>
          /\ UNCHANGED <<sim_balance, portfolio, entry_prices, last_buy_time,
                         price_history>>
          /\ Len(result') = 2 => result'[2] = result'[1]]_vars

\* The total equity of an open position has been computed twice: 12.5 BTC at
\* a last price above the entry price of 80.
C27_ComputedTwiceReached ==
    /\ call.fn = "display_status"
    /\ Len(result) = 2
    /\ result[1][1] = "total_port"
    /\ ALt(AZero, Qty("BTC_USDT"))
    /\ ALt(AInt(INITIAL_BALANCE), result[1][2])

(***************************************************************************)
(* C28.  Force commands and non-positive prices: a force buy or force sell *)
(* changes the cash, the portfolio, the entry prices or the cooldowns only *)
(* at a positive fetched price (a missing, zero or negative price leaves   *)
(* them unchanged), so no negative quantity and no negative entry price is *)
(* ever recorded.                                                          *)
(***************************************************************************)
C28_ForceNeedsPositivePrice ==
    [][ForceTaken =>
          /\ (\/ trades' # <<>>
              \/ ~UNCHANGED <<sim_balance, portfolio, entry_prices, last_buy_time>>)
                => (trades' # <<>> /\ trades'[Len(trades')].price > 0)
          /\ \A s \in DOMAIN portfolio' : ALe(AZero, portfolio'[s])
          /\ \A s \in DOMAIN entry_prices' : entry_prices'[s] > 0]_vars

\* A tick of the desktop bot_step sells part of the BTC_USDT position on the
\* advisory: it logs a SELL of less than the quantity held.
DesktopPartialSell ==
    /\ call.fn = "desktop_bot_step"
    /\ Len(result') = Len(result) + 1
    /\ result'[Len(result')] # <<>>
    /\ result'[Len(result')][1].action = "SELL"
    /\ ALt(result'[Len(result')][1].qty, Qty("BTC_USDT"))

(***************************************************************************)
(* C29.  Partial sell in the desktop variant: an advisory partial sell of  *)
(* 50% reduces the quantity and keeps the symbol's entry price, so that    *)
(* later ticks still measure stop-loss and take-profit for the remaining   *)
(* quantity against the original entry price.                              *)
(***************************************************************************)
C29_PartialSellKeepsEntry ==
    [][DesktopPartialSell =>
          /\ ALt(AZero, Get(portfolio', "BTC_USDT", AZero))
          /\ ALt(Get(portfolio', "BTC_USDT", AZero), Qty("BTC_USDT"))
          /\ "BTC_USDT" \in DOMAIN entry_prices'
          /\ entry_prices'["BTC_USDT"] = entry_prices["BTC_USDT"]]_vars

\* Every request of the call was rate limited or raised.
AllAttemptsFail == \A k \in 1..AI_ATTEMPTS : call.args[1][k].status \in {"429", "exc"}

(***************************************************************************)
(* C30.  consult_ai returns after at most 3 requests, each rate-limited or *)
(* raising request using up one of them; it returns a signal that is buy,  *)
(* sell or hold and a reason of at most 60 characters, and (hold, error)   *)
(* when every request fails.  The signal is the one the main loop's model  *)
(* of consult_ai gives for the same requests.                              *)
(***************************************************************************)
C30_ConsultBounded ==
    (call.fn = "consult_ai" /\ result # <<>>) =>
        LET out     == result[1]
            replies == call.args[1]
        IN  /\ out.attempts \in 0..AI_ATTEMPTS
            /\ \A k \in 1..AI_ATTEMPTS :
                  k < out.attempts => replies[k].status \in {"429", "exc"}
            /\ out.signal \in Signals
            /\ out.reason.len <= 60
            /\ (OPENROUTER_API_KEY /\ AllAttemptsFail) =>
                  /\ out.signal = "hold"
                  /\ out.reason = Literal("error", 5)
                  /\ out.attempts = AI_ATTEMPTS
            /\ out.signal =
                  consult_ai(OPENROUTER_API_KEY,
                             [k \in 1..AI_ATTEMPTS |-> Outcome(replies[k])])[1]

\* consult_ai has returned on its third request, after a rate-limited one and
\* one that raised, with a reason cut from 61 characters to 60.
C30_ThirdAttemptCutReached ==
    /\ call.fn = "consult_ai"
    /\ OPENROUTER_API_KEY
    /\ result # <<>>
    /\ call.args[1][1].status = "429"
    /\ call.args[1][2].status = "exc"
    /\ call.args[1][3].status = "ok"
    /\ call.args[1][3].n = 61
    /\ result[1].attempts = 3
    /\ result[1].reason = Literal("reply", 60)

\* A command of the given kind is taken from the queue.
Taken(cmd) ==
    /\ pc = "poll"
    /\ cmd_queue # <<>>
    /\ Head(cmd_queue) = cmd
    /\ Len(cmd_queue') < Len(cmd_queue)

\* The main thread leaves the top of the loop (line 468).
LeavesTop == pc = "top" /\ pc' # "top"

(***************************************************************************)
(* C31.  Stop/start: the stop command clears running and the start command *)
(* sets it.  While running is False no step is a step of bot_step: the     *)
(* tick counter stays, no history gets a price, no trade is made but by a  *)
(* force command, and the loop goes from its top to the command poll,      *)
(* where a queued command is taken as when running (a reset leaves the     *)
(* initial ledger).  When running is True and a tick is due, the loop      *)
(* enters bot_step.                                                        *)
(***************************************************************************)
C31_StoppedRunsNoTick ==
    [][/\ Taken(<<"stop">>) => ~running'
       /\ Taken(<<"start">>) => running'
       /\ ~running =>
             /\ ~MidTick /\ (~MidTick)'
             /\ ai_consult_counter' = ai_consult_counter
             /\ price_history' # price_history =>
                   (Taken(<<"reset">>) /\ price_history' = EmptyHistory)
             /\ (trades' # trades /\ trades' # <<>>) => ForceTrade
             /\ running' => Taken(<<"start">>)
             /\ (pc = "poll" /\ pc' # "poll" /\ cmd_queue # <<>>) =>
                   Len(cmd_queue') < Len(cmd_queue)
             /\ Taken(<<"reset">>) => LedgerIsInitial'
       /\ LeavesTop => (MidTick' <=> (running /\ Due /\ ~ALe(sim_balance, AZero)))]_vars

\* A force buy has been applied while the bot is stopped.
C31_ForceBuyWhileStopped ==
    /\ ~running
    /\ pc = "sleep"
    /\ trades # <<>>
    /\ trades[1].action = "BUY"
    /\ ai_consult_counter = FeedDownTicks + 1

(***************************************************************************)
(* C32.  Cooldown is never the blocking condition: a symbol with quantity  *)
(* 0 has no cooldown timestamp, and can_buy(symbol) is true exactly when   *)
(* the symbol's quantity is 0.                                             *)
(***************************************************************************)
C32_CooldownNeverBlocks ==
    \A s \in SymbolSet :
        /\ Qty(s) = AZero => s \notin DOMAIN last_buy_time
        /\ can_buy(Ledger, s, clock) <=> Qty(s) = AZero

(***************************************************************************)
(* C33: the cash stays strictly positive.  In every reachable state        *)
(* sim_balance > 0, so the branch at the start of bot_step that resets     *)
(* the bot on sim_balance <= 0 is never taken.                             *)
(***************************************************************************)
AutoResetTaken ==
    /\ pc = "top"
    /\ running
    /\ Due
    /\ ALe(sim_balance, AZero)

C33_CashStaysPositive ==
    /\ ALt(AZero, sim_balance)
    /\ ~AutoResetTaken

(***************************************************************************)
(* C34: per-symbol frame of bot_step.  Within a tick the symbols are       *)
(* processed one after another in the order of SYMBOLS; processing symbol  *)
(* S changes only the history, quantity, entry price and cooldown of S     *)
(* and the shared cash, never those of another symbol; and a buy is sized  *)
(* from the cash the earlier symbols' trades of the same tick have left.   *)
(***************************************************************************)
Slot(d, s) == IF s \in DOMAIN d THEN <<d[s]>> ELSE <<>>

OthersKept ==
    \A t \in SymbolSet \ {CurSym} :
        /\ price_history'[t] = price_history[t]
        /\ Slot(portfolio', t) = Slot(portfolio, t)
        /\ Slot(entry_prices', t) = Slot(entry_prices, t)
        /\ Slot(last_buy_time', t) = Slot(last_buy_time, t)

\* A step of the input thread while bot_step is part-way through a tick.
TypedMidTick == pc' = pc /\ sym_idx' = sym_idx /\ Ledger' = Ledger

InOrder ==
    \/ TypedMidTick
    \/ pc = "sym" /\ pc' = "buy" /\ sym_idx' = sym_idx
    \/ sym_idx < Len(SYMBOLS) /\ pc' = "sym" /\ sym_idx' = sym_idx + 1
    \/ sym_idx = Len(SYMBOLS) /\ pc' \in {"poll", "dead"} /\ sym_idx' = 0

SizedFromCashLeft ==
    LET tr  == trades'[Len(trades')]
        usd == AMulRat(sim_balance, dynamic_risk(price_history[CurSym]))
    IN  /\ tr.sym = CurSym
        /\ tr.qty = ADivInt(usd, tr.price)
        /\ sim_balance' = ASub(sim_balance, usd)
        /\ tr.bal = sim_balance'

C34_PerSymbolFrame ==
    [][/\ (pc = "top" /\ MidTick') => (pc' = "sym" /\ sym_idx' = 1)
       /\ MidTick =>
            /\ sym_idx \in 1..Len(SYMBOLS)
            /\ OthersKept
            /\ InOrder
            /\ (TickTrade /\ BuyApplied) => SizedFromCashLeft]_vars

\* The tick has bought the first symbol and then the second, the second
\* with what the first purchase left of the cash.
C34_SecondBuyFromRemainder ==
    /\ pc = "poll"
    /\ Len(trades) = 2
    /\ trades[1].action = "BUY" /\ trades[1].sym = SYMBOLS[1]
    /\ trades[2].action = "BUY" /\ trades[2].sym = SYMBOLS[2]
    /\ ALt(trades[2].bal, trades[1].bal)
    /\ sim_balance = trades[2].bal

(***************************************************************************)
(* C35: command liveness and order.  As long as the main loop keeps        *)
(* running, every command the input thread has put on cmd_queue is         *)
(* eventually taken from it and applied; a loop iteration applies at most  *)
(* one command; and commands are applied in the order they were put.       *)
(***************************************************************************)
\* Commands taken from the queue so far, counted from the first typed one.
Served == typed - Len(cmd_queue)

\* The main loop has ended: display_status raised (line 405).
LoopEnded == pc = "dead"

\* The last tick of the model is due: the model follows the run no further.
Horizon == pc = "top" /\ running /\ Due /\ ai_consult_counter >= MaxTicks

Applied(cmd) ==
    /\ cmd = <<"start">> => running'
    /\ cmd = <<"stop">> => ~running'
    /\ cmd = <<"reset">> => LedgerIsInitial'
    /\ (cmd[1] = "force" /\ trades' # <<>>) =>
          /\ trades'[1].sym = cmd[3]
          /\ trades'[1].action = (IF cmd[2] = "buy" THEN "BUY" ELSE "SELL")
    /\ cmd[1] # "force" => trades' = <<>>

QueueStep ==
    \/ cmd_queue' = cmd_queue
    \/ /\ \E cmd \in Commands : cmd_queue' = Append(cmd_queue, cmd)
       /\ pc' = pc
       /\ Ledger' = Ledger
       /\ running' = running
    \/ /\ cmd_queue # <<>>
       /\ cmd_queue' = Tail(cmd_queue)
       /\ pc = "poll"
       /\ pc' \in {"sleep", "dead"}
       /\ Applied(Head(cmd_queue))

C35_CommandsServedInOrder ==
    /\ [][QueueStep]_vars
    /\ \A n \in -2..MaxCmds : \A k \in 1..2 :
          (Len(cmd_queue) >= k /\ Served = n)
              ~> (Served >= n + k \/ LoopEnded \/ Horizon)

\* Of the two commands that waited, stop was applied first and the force buy
\* second: the bot is stopped and the last command bought.
C35_StopThenForceBuyServed ==
    /\ typed = 0
    /\ cmd_queue = <<>>
    /\ ~running
    /\ alerts = <<"FORCED BUY">>
    /\ pc = "sleep"

(***************************************************************************)
(* pythonista_ios_mode.py: start(), stop() and the threads running         *)
(* bot_loop.  A thread is a record of its position and locals.  Threads    *)
(* interleave wherever the interpreter can switch them: between the load   *)
(* and the store of an augmented assignment to the global balance, and at  *)
(* every call that waits (the requests of lines 31 and 44, the file write  *)
(* of line 52, console.alert).                                             *)
(***************************************************************************)
\* Threads start() makes, and passes of "while True" a thread is followed for.
MaxIosThreads == 2
MaxIosLoops == 2

\* prices.get(sym) for one symbol: <<>> (None) or <<p>>.
IosReplies == {<<>>, <<100>>, <<110>>}

NoPrices == [s \in IosSymbolSet |-> <<>>]

NewThread ==
    [pc |-> "init", iter |-> 0, prices |-> NoPrices, i |-> 0, price |-> 0,
     qty |-> AZero, usd |-> AZero, coins |-> AZero, tmp |-> AZero]

\* ai_signal (lines 37-48): 'hold' without a key or on an API error.
IosSignals == IF ios.api_key THEN {"buy", "sell", "hold"} ELSE {"hold"}

\* history[sym].append(price); pop(0) beyond 50 entries (lines 63-65).
ios_append(hist, p) ==
    IF Len(hist) + 1 > 50 THEN Tail(Append(hist, p)) ELSE Append(hist, p)

BotUntouched ==
    UNCHANGED <<price_history, portfolio, sim_balance, running, cmd_queue,
                entry_prices, last_buy_time, ai_consult_counter,
                OPENROUTER_API_KEY, last_update, clock, pc, sym_idx, price,
                ai_signal, ai_reason, trades, typed, peak_equity, tripped,
                alerts, call, result>>

\* The thread t with its locals changed to th, going on to the next symbol.
NextIosSymbol(th) == [th EXCEPT !.pc = "sym", !.i = @ + 1, !.price = 0,
                                !.qty = AZero, !.usd = AZero, !.coins = AZero,
                                !.tmp = AZero]

\* start() (lines 87-89).
IosStart ==
    /\ Len(ios.threads) < MaxIosThreads
    /\ ios' = [ios EXCEPT !.threads = Append(@, NewThread)]
    /\ BotUntouched

\* stop() (lines 91-93).
IosStop ==
    /\ ios' = [ios EXCEPT !.running = FALSE]
    /\ BotUntouched

\* Line 57: balance = BALANCE.
BotLoopInit ==
    \E t \in 1..Len(ios.threads) :
        /\ ios.threads[t].pc = "init"
        /\ ios' = [ios EXCEPT !.balance = AInt(BALANCE),
                              !.threads[t].pc = "fetch"]
        /\ BotUntouched

\* Lines 58-59: while True: prices = fetch_prices().
BotLoopFetch ==
    \E t \in 1..Len(ios.threads) :
        /\ ios.threads[t].pc = "fetch"
        /\ ios.threads[t].iter < MaxIosLoops
        /\ \E pr \in [IosSymbolSet -> IosReplies] :
              ios' = [ios EXCEPT !.threads[t].prices = pr,
                                 !.threads[t].i = 1,
                                 !.threads[t].pc = "sym"]
        /\ BotUntouched

\* Lines 60-67 for the next symbol, or lines 81-84 after the last one.
BotLoopSym ==
    \E t \in 1..Len(ios.threads) :
        LET th == ios.threads[t] IN
        /\ th.pc = "sym"
        /\ IF th.i > Len(IOS_SYMBOLS)
           THEN ios' = [ios EXCEPT !.threads[t] =
                            [th EXCEPT !.pc = "fetch", !.iter = @ + 1,
                                       !.prices = NoPrices, !.i = 0]]
           ELSE LET sym   == IOS_SYMBOLS[th.i]
                    reply == th.prices[sym]
                IN  IF reply = <<>> \/ reply[1] = 0
                    THEN ios' = [ios EXCEPT !.threads[t] = NextIosSymbol(th)]
                    ELSE ios' = [ios EXCEPT
                                   !.history[sym] = ios_append(@, reply[1]),
                                   !.threads[t] =
                                       [th EXCEPT !.pc = "signal",
                                                  !.price = reply[1],
                                                  !.qty = ios.holdings[sym]]]
        /\ BotUntouched

\* Lines 68-70 and 74-76: the signal, the two tests, and the first read of
\* balance in the branch taken.
BotLoopSignal ==
    \E t \in 1..Len(ios.threads) :
        LET th == ios.threads[t] IN
        /\ th.pc = "signal"
        /\ \E signal \in IosSignals :
              IF ALt(AZero, th.qty) /\ signal = "sell"
              THEN ios' = [ios EXCEPT !.threads[t] =
                               [th EXCEPT !.pc = "sell_store",
                                          !.tmp = AAdd(ios.balance,
                                                       AMulInt(th.qty, th.price))]]
              ELSE IF th.qty = AZero /\ signal = "buy"
              THEN LET usd == AMulRat(ios.balance, Rat(2, 100))
                   IN  ios' = [ios EXCEPT !.threads[t] =
                                   [th EXCEPT !.pc = "buy_hold",
                                              !.usd = usd,
                                              !.coins = ADivInt(usd, th.price)]]
              ELSE ios' = [ios EXCEPT !.threads[t] = NextIosSymbol(th)]
        /\ BotUntouched

\* Lines 70-71: the store of "balance += qty * price", and log_trade.
BotLoopSellStore ==
    \E t \in 1..Len(ios.threads) :
        LET th == ios.threads[t] IN
        /\ th.pc = "sell_store"
        /\ ios' = [ios EXCEPT !.balance = th.tmp,
                              !.log = Append(@, [sym |-> IOS_SYMBOLS[th.i],
                                                 action |-> "SELL",
                                                 price |-> th.price,
                                                 qty |-> th.qty]),
                              !.threads[t].pc = "sell_clear"]
        /\ BotUntouched

\* Lines 72-73: holdings[sym] = 0.
BotLoopSellClear ==
    \E t \in 1..Len(ios.threads) :
        LET th == ios.threads[t] IN
        /\ th.pc = "sell_clear"
        /\ ios' = [ios EXCEPT !.holdings[IOS_SYMBOLS[th.i]] = AZero,
                              !.threads[t] = NextIosSymbol(th)]
        /\ BotUntouched

\* Lines 77-78: holdings[sym] = coins, and the load of "balance -= usd".
BotLoopBuyHold ==
    \E t \in 1..Len(ios.threads) :
        LET th == ios.threads[t] IN
        /\ th.pc = "buy_hold"
        /\ ios' = [ios EXCEPT !.holdings[IOS_SYMBOLS[th.i]] = th.coins,
                              !.threads[t].pc = "buy_store",
                              !.threads[t].tmp = ASub(ios.balance, th.usd)]
        /\ BotUntouched

\* Lines 78-80: the store of "balance -= usd", and log_trade.
BotLoopBuyStore ==
    \E t \in 1..Len(ios.threads) :
        LET th == ios.threads[t] IN
        /\ th.pc = "buy_store"
        /\ ios' = [ios EXCEPT !.balance = th.tmp,
                              !.log = Append(@, [sym |-> IOS_SYMBOLS[th.i],
                                                 action |-> "BUY",
                                                 price |-> th.price,
                                                 qty |-> th.coins]),
                              !.threads[t] = NextIosSymbol(th)]
        /\ BotUntouched

\* bot.py is not running; API_KEY is the placeholder of line 20 or a key the
\* user has pasted there.
InitIos ==
    /\ ios \in {[IosIdle EXCEPT !.api_key = k] : k \in BOOLEAN}
    /\ call = NoCall
    /\ result = <<>>
    /\ price_history = [s \in SymbolSet |-> <<>>]
    /\ portfolio = EmptyDict
    /\ sim_balance = AInt(INITIAL_BALANCE)
    /\ running = TRUE
    /\ cmd_queue = <<>>
    /\ entry_prices = EmptyDict
    /\ last_buy_time = EmptyDict
    /\ ai_consult_counter = 0
    /\ OPENROUTER_API_KEY = FALSE
    /\ last_update = 0
    /\ clock = UPDATE_INTERVAL
    /\ pc = "top"
    /\ sym_idx = 0
    /\ price = 0
    /\ ai_signal = "None"
    /\ ai_reason = ""
    /\ trades = <<>>
    /\ typed = 0
    /\ peak_equity = AInt(INITIAL_BALANCE)
    /\ tripped = FALSE
    /\ alerts = <<>>

NextIos ==
    \/ IosStart
    \/ IosStop
    \/ BotLoopInit
    \/ BotLoopFetch
    \/ BotLoopSym
    \/ BotLoopSignal
    \/ BotLoopSellStore
    \/ BotLoopSellClear
    \/ BotLoopBuyHold
    \/ BotLoopBuyStore

SpecIos == InitIos /\ [][NextIos]_vars

(***************************************************************************)
(* C36: stop in pythonista_ios_mode.py.  After stop() has been called the  *)
(* trading loop buys and sells no more and leaves balance and holdings as  *)
(* they are.                                                               *)
(***************************************************************************)
C36_StopHaltsTrading ==
    [][~ios.running =>
          /\ ios'.balance = ios.balance
          /\ ios'.holdings = ios.holdings
          /\ ios'.log = ios.log]_vars

(***************************************************************************)
(* C37: single timeline in pythonista_ios_mode.py.  Whatever the calls of  *)
(* start(), at most one bot_loop is at work on balance and holdings: no    *)
(* balance update is lost, balance is not set back to BALANCE while a      *)
(* position is held, and no symbol is bought twice or sold twice in a row. *)
(***************************************************************************)
IosTraded == Len(ios'.log) = Len(ios.log) + 1

IosLast == ios'.log[Len(ios'.log)]

\* The trades of symbol s so far.
IosTradesOf(s) == SelectSeq(ios.log, LAMBDA r : r.sym = s)

NoLostUpdate ==
    IosTraded =>
        ios'.balance = IF IosLast.action = "SELL"
                       THEN AAdd(ios.balance, AMulInt(IosLast.qty, IosLast.price))
                       ELSE ASub(ios.balance, AMulInt(IosLast.qty, IosLast.price))

NoReinitWhileHeld ==
    (\E t \in 1..Len(ios.threads) :
         ios.threads[t].pc = "init" /\ ios'.threads[t].pc # "init")
       => \A s \in IosSymbolSet : ios.holdings[s] = AZero

NoDoubleTrade ==
    IosTraded =>
        LET before == IosTradesOf(IosLast.sym)
        IN  IF IosLast.action = "BUY"
            THEN before = <<>> \/ before[Len(before)].action = "SELL"
            ELSE before # <<>> /\ before[Len(before)].action = "BUY"

C37_SingleTimeline ==
    [][/\ Len(ios'.threads) <= 1
       /\ NoLostUpdate
       /\ NoReinitWhileHeld
       /\ NoDoubleTrade]_vars

====
